---- MODULE Spec2Model ----
(***************************************************************************)
(* A model of the rag-processor document pipeline: the directive parser,   *)
(* the text chunker, the validation engine, the chunking strategies and    *)
(* the processor that orchestrates them.                                   *)
(*                                                                         *)
(* Text is a sequence of one-character strings, so that splitting,         *)
(* trimming, prefix tests and regular-expression matches are computed      *)
(* character by character as the Python code computes them.                *)
(***************************************************************************)
EXTENDS Integers, Sequences, FiniteSets, TLC

(***************************************************************************)
(* Python str / re primitives on character sequences                       *)
(***************************************************************************)

\* A TLA+ string literal as a character sequence.
Chars(s) == [i \in 1..Len(s) |-> SubSeq(s, i, i)]

\* Optional[...]: None is the empty tuple, a present value a 1-tuple.
None == << >>

Some(v) == << v >>

Min2(a, b) == IF a <= b THEN a ELSE b

Max2(a, b) == IF a >= b THEN a ELSE b

SetMin(S) == CHOOSE x \in S : \A y \in S : x <= y

SetMax(S) == CHOOSE x \in S : \A y \in S : x >= y

\* str.isspace() / the regex class \s, on the characters the model uses.  A
\* character outside ASCII is written as its code point.
IsSpace(c) == c \in {" ", "\n", "\t", "\r", "U+00A0"}

IsDigit(c) == c \in {"0", "1", "2", "3", "4", "5", "6", "7", "8", "9"}

\* text[a:b] with 0-based Python offsets, 0 <= a, b; clipped as Python clips.
Slice(s, a, b) == SubSeq(s, a + 1, Min2(b, Len(s)))

\* str.lstrip(), str.rstrip(), str.strip()
LStripCount(s) ==
    IF \A i \in 1..Len(s) : IsSpace(s[i]) THEN Len(s)
    ELSE SetMin({i \in 1..Len(s) : ~IsSpace(s[i])}) - 1

RStripEnd(s) ==
    IF \A i \in 1..Len(s) : IsSpace(s[i]) THEN 0
    ELSE SetMax({i \in 1..Len(s) : ~IsSpace(s[i])})

Strip(s) == SubSeq(s, LStripCount(s) + 1, RStripEnd(s))

\* str.startswith(p)
StartsWith(s, p) == Len(s) >= Len(p) /\ SubSeq(s, 1, Len(p)) = p

\* str.find(p, from): the least 0-based offset >= from where p occurs, or -1.
Find(s, p, from) ==
    LET hits == {k \in from..(Len(s) - Len(p)) : SubSeq(s, k + 1, k + Len(p)) = p}
    IN  IF hits = {} THEN -1 ELSE SetMin(hits)

\* p in s
Contains(s, p) == Find(s, p, 0) >= 0

\* The maximal runs of characters of s that satisfy P, each as <<start, end>>
\* with 0-based start and exclusive end: the matches of a pattern `[class]+`.
Runs(s, P(_)) ==
    LET starts == {i \in 1..Len(s) : P(s[i]) /\ (i = 1 \/ ~P(s[i - 1]))}
        EndOf(a) == SetMin({j \in a..Len(s) : j = Len(s) \/ ~P(s[j + 1])})
    IN  { << a - 1, EndOf(a) >> : a \in starts }

LowerLetters == Chars("abcdefghijklmnopqrstuvwxyz")

UpperLetters == Chars("ABCDEFGHIJKLMNOPQRSTUVWXYZ")

IsLower(c) == c \in {LowerLetters[i] : i \in 1..Len(LowerLetters)}

IsUpper(c) == c \in {UpperLetters[i] : i \in 1..Len(UpperLetters)}

\* The regex class [a-zA-Z]
IsLetter(c) == IsLower(c) \/ IsUpper(c)

\* str.lower()
Lower(s) ==
    [i \in 1..Len(s) |->
        IF IsUpper(s[i])
        THEN LowerLetters[CHOOSE k \in 1..Len(UpperLetters) : UpperLetters[k] = s[i]]
        ELSE s[i]]

\* The regex class \w
IsWordChar(c) == IsDigit(c) \/ c = "_" \/ IsLetter(c)

\* re.findall / re.finditer keep the leftmost of overlapping matches: of the
\* candidate match starts, those taken when every match is width long.
RECURSIVE NonOverlapping(_, _, _)
NonOverlapping(starts, width, from) ==
    LET ahead == {k \in starts : k >= from}
    IN  IF ahead = {} THEN {}
        ELSE {SetMin(ahead)} \cup NonOverlapping(starts, width, SetMin(ahead) + width)

\* How many characters of s from offset from on satisfy P before one does not.
LeadingCount(s, from, P(_)) ==
    LET stop == {i \in (from + 1)..Len(s) : ~P(s[i])}
    IN  IF stop = {} THEN Max2(Len(s) - from, 0) ELSE SetMin(stop) - 1 - from

\* The matches re.finditer takes, in order, from offset from on, when spans
\* holds for each offset where the pattern can match the span <<start, end>> it
\* matches there: the leftmost one, then the leftmost one after its end.
RECURSIVE TakeMatches(_, _)
TakeMatches(spans, from) ==
    LET ahead == {sp \in spans : sp[1] >= from}
        first == CHOOSE sp \in ahead : \A other \in ahead : sp[1] <= other[1]
    IN  IF ahead = {} THEN << >>
        ELSE << first >> \o TakeMatches(spans, Max2(first[2], first[1] + 1))

\* The matches of r'\n\s*\n' in content: one per whitespace run that holds at
\* least two newlines, from its first newline to its last.
ParagraphBreaks(content) ==
    LET Newlines(r) == {i \in r[1]..(r[2] - 1) : content[i + 1] = "\n"}
    IN  { << SetMin(Newlines(r)), SetMax(Newlines(r)) + 1 >> :
            r \in {q \in Runs(content, IsSpace) : Cardinality(Newlines(q)) >= 2} }

\* re.split for a pattern without groups: the pieces of content between the
\* matches, which are given in order.
RegexSplit(content, matches) ==
    [n \in 1..(Len(matches) + 1) |->
        Slice(content,
              IF n = 1 THEN 0 ELSE matches[n - 1][2],
              IF n > Len(matches) THEN Len(content) ELSE matches[n][1])]

\* re.split(r'\n\s*\n', content)
SplitParagraphs(content) == RegexSplit(content, TakeMatches(ParagraphBreaks(content), 0))

\* str.split(sep) for a one-character separator.
RECURSIVE SplitOn(_, _)
SplitOn(s, sep) ==
    LET k == Find(s, << sep >>, 0)
    IN  IF k < 0 THEN << s >>
        ELSE << SubSeq(s, 1, k) >> \o SplitOn(SubSeq(s, k + 2, Len(s)), sep)

\* sep.join(parts)
RECURSIVE Join(_, _)
Join(parts, sep) ==
    IF Len(parts) = 0 THEN << >>
    ELSE IF Len(parts) = 1 THEN parts[1]
    ELSE parts[1] \o sep \o Join(Tail(parts), sep)

(***************************************************************************)
(* JSON values and the json module (json.dumps with separators (',', ':'), *)
(* json.loads).  A value is a record [kind, val]:                          *)
(*   null, bool (val a BOOLEAN), num (val an integer), str (val a          *)
(*   character sequence), arr (val a sequence of values), obj (val a       *)
(*   sequence of <<key, value>> pairs with distinct keys, in insertion     *)
(*   order, as a Python dict keeps them).                                  *)
(* The grammar modelled is JSON without fractions, exponents and \uXXXX    *)
(* escapes; the documents of this model contain none.                      *)
(***************************************************************************)

JNull == [kind |-> "null", val |-> 0]

JBool(b) == [kind |-> "bool", val |-> b]

JNum(n) == [kind |-> "num", val |-> n]

JStr(s) == [kind |-> "str", val |-> s]

JArr(items) == [kind |-> "arr", val |-> items]

JObj(pairs) == [kind |-> "obj", val |-> pairs]

\* dict key lookup: the index of key k in the pairs, or 0.
KeyIndex(pairs, k) ==
    IF \E i \in 1..Len(pairs) : pairs[i][1] = k
    THEN CHOOSE i \in 1..Len(pairs) : pairs[i][1] = k
    ELSE 0

\* d[k] = v on a dict: an existing key keeps its place and takes the new value.
DictSet(pairs, k, v) ==
    IF KeyIndex(pairs, k) = 0 THEN Append(pairs, << k, v >>)
    ELSE [pairs EXCEPT ![KeyIndex(pairs, k)] = << k, v >>]

\* Python's == on JSON values: dicts compare as mappings, lists as sequences.
RECURSIVE JEq(_, _)
JEq(a, b) ==
    /\ a.kind = b.kind
    /\ CASE a.kind = "arr" ->
              /\ Len(a.val) = Len(b.val)
              /\ \A i \in 1..Len(a.val) : JEq(a.val[i], b.val[i])
         [] a.kind = "obj" ->
              /\ Len(a.val) = Len(b.val)
              /\ \A i \in 1..Len(a.val) :
                    /\ KeyIndex(b.val, a.val[i][1]) # 0
                    /\ JEq(a.val[i][2], b.val[KeyIndex(b.val, a.val[i][1])][2])
         [] OTHER -> a.val = b.val

\* bool(x) for a JSON value x, as `if directive.metadata:` evaluates it.
Truthy(j) ==
    CASE j.kind = "null" -> FALSE
      [] j.kind = "bool" -> j.val
      [] j.kind = "num" -> j.val # 0
      [] OTHER -> Len(j.val) > 0

DigitChars == << "0", "1", "2", "3", "4", "5", "6", "7", "8", "9" >>

DigitValue(c) == (CHOOSE i \in 1..10 : DigitChars[i] = c) - 1

\* str(n) for an integer n
RECURSIVE NatToChars(_)
NatToChars(n) ==
    IF n < 10 THEN << DigitChars[n + 1] >>
    ELSE NatToChars(n \div 10) \o << DigitChars[(n % 10) + 1] >>

IntToChars(n) == IF n < 0 THEN << "-" >> \o NatToChars(0 - n) ELSE NatToChars(n)

\* json.encoder: the body of a string literal, with its escapes.
RECURSIVE EscapeChars(_)
EscapeChars(s) ==
    IF Len(s) = 0 THEN << >>
    ELSE (CASE Head(s) = "\"" -> << "\\", "\"" >>
            [] Head(s) = "\\" -> << "\\", "\\" >>
            [] Head(s) = "\n" -> << "\\", "n" >>
            [] Head(s) = "\t" -> << "\\", "t" >>
            [] Head(s) = "\r" -> << "\\", "r" >>
            [] OTHER -> << Head(s) >>) \o EscapeChars(Tail(s))

DumpsStr(s) == << "\"" >> \o EscapeChars(s) \o << "\"" >>

\* json.dumps(j, separators=(',', ':'))
RECURSIVE Dumps(_)
Dumps(j) ==
    CASE j.kind = "null" -> Chars("null")
      [] j.kind = "bool" -> IF j.val THEN Chars("true") ELSE Chars("false")
      [] j.kind = "num" -> IntToChars(j.val)
      [] j.kind = "str" -> DumpsStr(j.val)
      [] j.kind = "arr" ->
            << "[" >> \o Join([i \in 1..Len(j.val) |-> Dumps(j.val[i])], << "," >>) \o << "]" >>
      [] j.kind = "obj" ->
            << "{" >>
            \o Join([i \in 1..Len(j.val) |->
                        DumpsStr(j.val[i][1]) \o << ":" >> \o Dumps(j.val[i][2])], << "," >>)
            \o << "}" >>

\* A decoding step's result: ok, the value, and the 1-based index of the next
\* character.  A failure is what raises json.JSONDecodeError.
JFail == [ok |-> FALSE, val |-> JNull, pos |-> 0]

JOk(v, p) == [ok |-> TRUE, val |-> v, pos |-> p]

\* json.decoder WHITESPACE.match(s, i).end()
RECURSIVE SkipWs(_, _)
SkipWs(s, i) == IF i <= Len(s) /\ s[i] \in {" ", "\n", "\t", "\r"} THEN SkipWs(s, i + 1) ELSE i

\* json.decoder.py_scanstring, strict: i is the index after the opening quote.
RECURSIVE ScanString(_, _, _)
ScanString(s, i, acc) ==
    IF i > Len(s) THEN JFail
    ELSE IF s[i] = "\"" THEN JOk(JStr(acc), i + 1)
    ELSE IF s[i] = "\\" THEN
        IF i + 1 > Len(s) THEN JFail
        ELSE CASE s[i + 1] = "\"" -> ScanString(s, i + 2, Append(acc, "\""))
               [] s[i + 1] = "\\" -> ScanString(s, i + 2, Append(acc, "\\"))
               [] s[i + 1] = "/" -> ScanString(s, i + 2, Append(acc, "/"))
               [] s[i + 1] = "n" -> ScanString(s, i + 2, Append(acc, "\n"))
               [] s[i + 1] = "t" -> ScanString(s, i + 2, Append(acc, "\t"))
               [] s[i + 1] = "r" -> ScanString(s, i + 2, Append(acc, "\r"))
               [] OTHER -> JFail
    ELSE IF s[i] \in {"\n", "\t", "\r"} THEN JFail
    ELSE ScanString(s, i + 1, Append(acc, s[i]))

\* json.scanner NUMBER_RE, integer part: (-?(?:0|[1-9]\d*))
RECURSIVE ScanDigits(_, _, _)
ScanDigits(s, i, n) ==
    IF i <= Len(s) /\ IsDigit(s[i]) THEN ScanDigits(s, i + 1, 10 * n + DigitValue(s[i]))
    ELSE [n |-> n, pos |-> i]

ScanNumber(s, i) ==
    LET neg == s[i] = "-"
        j == IF neg THEN i + 1 ELSE i
    IN  IF j > Len(s) \/ ~IsDigit(s[j]) THEN JFail
        ELSE IF s[j] = "0" THEN JOk(JNum(0), j + 1)
        ELSE LET d == ScanDigits(s, j, 0)
             IN  JOk(JNum(IF neg THEN 0 - d.n ELSE d.n), d.pos)

RECURSIVE ScanValue(_, _)
RECURSIVE ScanArray(_, _, _)
RECURSIVE ScanObject(_, _, _)

\* json.scanner.py_make_scanner._scan_once
ScanValue(s, i) ==
    IF i > Len(s) THEN JFail
    ELSE CASE s[i] = "\"" -> ScanString(s, i + 1, << >>)
           [] s[i] = "{" ->
                 LET j == SkipWs(s, i + 1)
                 IN  IF j <= Len(s) /\ s[j] = "}" THEN JOk(JObj(<< >>), j + 1)
                     ELSE ScanObject(s, j, << >>)
           [] s[i] = "[" ->
                 LET j == SkipWs(s, i + 1)
                 IN  IF j <= Len(s) /\ s[j] = "]" THEN JOk(JArr(<< >>), j + 1)
                     ELSE ScanArray(s, j, << >>)
           [] s[i] = "n" ->
                 IF Slice(s, i - 1, i + 3) = Chars("null") THEN JOk(JNull, i + 4) ELSE JFail
           [] s[i] = "t" ->
                 IF Slice(s, i - 1, i + 3) = Chars("true") THEN JOk(JBool(TRUE), i + 4) ELSE JFail
           [] s[i] = "f" ->
                 IF Slice(s, i - 1, i + 4) = Chars("false") THEN JOk(JBool(FALSE), i + 5)
                 ELSE JFail
           [] OTHER -> ScanNumber(s, i)

\* json.decoder.JSONArray: i is the index of the next element.
ScanArray(s, i, acc) ==
    LET v == ScanValue(s, i)
    IN  IF ~v.ok THEN JFail
        ELSE LET j == SkipWs(s, v.pos)
             IN  IF j > Len(s) THEN JFail
                 ELSE IF s[j] = "]" THEN JOk(JArr(Append(acc, v.val)), j + 1)
                 ELSE IF s[j] = "," THEN ScanArray(s, SkipWs(s, j + 1), Append(acc, v.val))
                 ELSE JFail

\* json.decoder.JSONObject: i is the index of the next member's opening quote.
ScanObject(s, i, acc) ==
    IF i > Len(s) \/ s[i] # "\"" THEN JFail
    ELSE LET k == ScanString(s, i + 1, << >>)
         IN  IF ~k.ok THEN JFail
             ELSE LET c == SkipWs(s, k.pos)
                  IN  IF c > Len(s) \/ s[c] # ":" THEN JFail
                      ELSE LET v == ScanValue(s, SkipWs(s, c + 1))
                           IN  IF ~v.ok THEN JFail
                               ELSE LET j == SkipWs(s, v.pos)
                                        acc2 == DictSet(acc, k.val.val, v.val)
                                    IN  IF j > Len(s) THEN JFail
                                        ELSE IF s[j] = "}" THEN JOk(JObj(acc2), j + 1)
                                        ELSE IF s[j] = "," THEN
                                            ScanObject(s, SkipWs(s, j + 1), acc2)
                                        ELSE JFail

\* json.loads(s): a value between optional whitespace, and nothing after it.
Loads(s) ==
    LET v == ScanValue(s, SkipWs(s, 1))
    IN  IF v.ok /\ SkipWs(s, v.pos) = Len(s) + 1 THEN v ELSE JFail

(***************************************************************************)
(* DirectiveParser (rag_processor/utils/directive_parser.py)               *)
(***************************************************************************)

\* ProcessingDirective(): strategy None, source_url None, metadata {} (__post_init__)
EmptyDirective == [strategy |-> None, source_url |-> None, metadata |-> JObj(<< >>)]

\* DirectiveParser.__init__: directive_patterns, in dict order.  Each pattern is
\* the literal prefix followed by \s*(.+)
directive_patterns ==
    << [type |-> "strategy", prefix |-> Chars("@strategy:")],
       [type |-> "source_url", prefix |-> Chars("@source-url:")],
       [type |-> "metadata", prefix |-> Chars("@metadata:")] >>

\* The longest prefix of s that `.+` can take: `.` matches anything but a newline.
DotRun(s) ==
    IF \E i \in 1..Len(s) : s[i] = "\n"
    THEN SubSeq(s, 1, SetMin({i \in 1..Len(s) : s[i] = "\n"}) - 1)
    ELSE s

\* re.match(prefix + r'\s*(.+)', line): None, or Some(group 1).  \s* is greedy and
\* gives characters back until (.+) has at least one character to take.
MatchDirective(prefix, line) ==
    IF ~StartsWith(line, prefix) THEN None
    ELSE LET rest == SubSeq(line, Len(prefix) + 1, Len(line))
             k == LStripCount(rest)
             starts == {j \in 1..(k + 1) : j <= Len(rest) /\ rest[j] # "\n"}
         IN  IF starts = {} THEN None
             ELSE Some(DotRun(SubSeq(rest, SetMax(starts), Len(rest))))

\* The body of the `for directive_type, pattern` loop of parse for one header
\* line: the first pattern that matches sets its field and ends the loop; a
\* metadata value that json.loads rejects raises ValueError.
\* directive.metadata = json.loads(value), for the outcome of json.loads.
SetMetadata(d, loaded) ==
    IF loaded.ok
    THEN [status |-> "ok", directive |-> [d EXCEPT !.metadata = loaded.val]]
    ELSE [status |-> "raised", directive |-> d]

\* The assignment a matching pattern of the given type makes.
ApplyDirective(d, type, value) ==
    CASE type = "metadata" -> SetMetadata(d, Loads(value))
      [] type = "strategy" ->
           [status |-> "ok", directive |-> [d EXCEPT !.strategy = Some(value)]]
      [] type = "source_url" ->
           [status |-> "ok", directive |-> [d EXCEPT !.source_url = Some(value)]]

RECURSIVE ApplyPatterns(_, _, _)
ApplyPatterns(line, d, n) ==
    IF n > Len(directive_patterns) THEN [status |-> "ok", directive |-> d]
    ELSE LET m == MatchDirective(directive_patterns[n].prefix, line)
         IN  IF m = None THEN ApplyPatterns(line, d, n + 1)
             ELSE ApplyDirective(d, directive_patterns[n].type, Strip(m[1]))

\* The `for line in lines` loop of parse, from line i on.
RECURSIVE ParseLines(_, _, _)
ParseLinesAfter(lines, i, r) ==
    IF r.status = "raised" THEN r ELSE ParseLines(lines, i + 1, r.directive)

ParseLines(lines, i, d) ==
    IF i > Len(lines) THEN [status |-> "ok", directive |-> d]
    ELSE LET line == Strip(lines[i])
         IN  IF StartsWith(line, Chars("#!/")) THEN ParseLines(lines, i + 1, d)
             ELSE IF ~StartsWith(line, Chars("@")) THEN [status |-> "ok", directive |-> d]
             ELSE ParseLinesAfter(lines, i, ApplyPatterns(line, d, 1))

\* A parse that swallows the JSON error and returns the directive read so far.
parse_swallowing_json_error(text) ==
    [status |-> "ok",
     directive |-> ParseLines(SplitOn(text, "\n"), 1, EmptyDirective).directive]

\* DirectiveParser.parse(content): [status |-> "ok", directive] or, when it
\* raises ValueError, [status |-> "raised", ...].
parse(text) == ParseLines(SplitOn(text, "\n"), 1, EmptyDirective)

\* DirectiveParser.extract_content(content)
extract_content(text) ==
    LET lines == SplitOn(text, "\n")
        content_lines == SelectSeq(lines,
            LAMBDA line : ~(StartsWith(line, Chars("#!/")) \/ StartsWith(line, Chars("@"))))
    IN  Strip(Join(content_lines, << "\n" >>))

\* `if directive.strategy:` on an Optional[str]
TruthyStr(o) == o # None /\ Len(o[1]) > 0

\* A header writer that marks its directive lines with '#!' instead of '@'.
create_directive_header_hash_prefix(d) ==
    LET l1 == << Chars("#!/usr/bin/env rag-processor") >>
        l2 == IF TruthyStr(d.strategy)
              THEN Append(l1, Chars("#!strategy: ") \o d.strategy[1]) ELSE l1
        l3 == IF TruthyStr(d.source_url)
              THEN Append(l2, Chars("#!source-url: ") \o d.source_url[1]) ELSE l2
        l4 == IF Truthy(d.metadata)
              THEN Append(l3, Chars("#!metadata: ") \o Dumps(d.metadata)) ELSE l3
    IN  Join(l4, << "\n" >>) \o << "\n", "\n" >>

\* DirectiveParser.create_directive_header(directive)
create_directive_header(d) ==
    LET l1 == << Chars("#!/usr/bin/env rag-processor") >>
        l2 == IF TruthyStr(d.strategy)
              THEN Append(l1, Chars("@strategy: ") \o d.strategy[1]) ELSE l1
        l3 == IF TruthyStr(d.source_url)
              THEN Append(l2, Chars("@source-url: ") \o d.source_url[1]) ELSE l2
        l4 == IF Truthy(d.metadata)
              THEN Append(l3, Chars("@metadata: ") \o Dumps(d.metadata)) ELSE l3
    IN  Join(l4, << "\n" >>) \o << "\n", "\n" >>

\* ProcessingDirective.__eq__ (dataclass equality; the metadata dicts compare
\* as mappings)
DirectiveEq(a, b) ==
    /\ a.strategy = b.strategy
    /\ a.source_url = b.source_url
    /\ JEq(a.metadata, b.metadata)

(***************************************************************************)
(* Client configuration (rag_processor/clients) and the header producers:  *)
(* each strategy's create_template and the CSV converter.                  *)
(***************************************************************************)

\* DefaultConfig.name
client_name == Chars("default")

\* DefaultConfig.description
client_description == Chars("Default configuration with standard validation rules")

\* ClientConfig.get_template_metadata()
get_template_metadata ==
    << << Chars("client"), JStr(client_name) >>,
       << Chars("description"), JStr(client_description) >> >>

\* dict.update(other)
RECURSIVE DictUpdate(_, _)
DictUpdate(pairs, other) ==
    IF Len(other) = 0 THEN pairs
    ELSE DictUpdate(DictSet(pairs, other[1][1], other[1][2]), Tail(other))

\* The registered strategy names (RAGDocumentProcessor.__init__, self.strategies)
StrategyNames ==
    { "structured-blocks/empty-line-separated", "structured-blocks/heading-separated",
      "structured-blocks/numbered-separated", "products/semantic-boundary",
      "manual/section-based", "faq/qa-pairs", "article/sentence-based",
      "legal/paragraph-based", "code/function-based" }

StructuredNames ==
    { "structured-blocks/empty-line-separated", "structured-blocks/heading-separated",
      "structured-blocks/numbered-separated" }

\* DefaultConfig.customize_strategy_config(strategy_name)
customize_strategy_config(name) ==
    LET two(a, x, b, y) == << << Chars(a), JBool(x) >>, << Chars(b), JBool(y) >> >>
    IN  CASE name = "products/semantic-boundary" ->
               two("preserve_product_integrity", TRUE, "allow_incomplete_products", FALSE)
          [] name = "manual/section-based" ->
               two("preserve_section_hierarchy", TRUE, "include_section_numbers", TRUE)
          [] name = "faq/qa-pairs" ->
               two("require_question_answer_pairs", TRUE, "allow_standalone_questions", FALSE)
          [] name = "article/sentence-based" ->
               two("preserve_paragraph_structure", TRUE, "break_on_sentence_boundaries", TRUE)
          [] name = "legal/paragraph-based" ->
               two("preserve_legal_structure", TRUE, "maintain_article_numbering", TRUE)
          [] name = "code/function-based" ->
               two("preserve_function_definitions", TRUE, "include_docstrings", TRUE)
          [] OTHER -> << >>

\* The steps the six create_template methods of products, manual, faq, article,
\* legal and code share: the header lines, the metadata line (the strategy's
\* metadata updated with the client's), the custom-rules line when the client
\* has rules, then the example content.
BuildTemplate(name, validation, chunk_pattern, metadata, example) ==
    LET template_parts ==
            << Chars("#!/usr/bin/env rag-processor"),
               Chars("#!strategy: ") \o Chars(name),
               Chars("#!validation: ") \o client_name \o Chars("/") \o Chars(validation),
               Chars("#!chunk-pattern: ") \o Chars(chunk_pattern) >>
        md == DictUpdate(metadata, get_template_metadata)
        with_md == Append(template_parts, Chars("#!metadata: ") \o Dumps(JObj(md)))
        custom_rules == customize_strategy_config(name)
        with_rules == IF Len(custom_rules) > 0
                      THEN Append(with_md, Chars("#!custom-rules: ") \o Dumps(JObj(custom_rules)))
                      ELSE with_md
    IN  Join(with_rules \o example, << "\n" >>)

\* {"type": t, "version": "1.0", "structure": st}
TypeVersionStructure(t, st) ==
    << << Chars("type"), JStr(Chars(t)) >>,
       << Chars("version"), JStr(Chars("1.0")) >>,
       << Chars("structure"), JStr(Chars(st)) >> >>

\* The example content of a template, cut after its first lines: parse and
\* extract_content treat every later line as they treat these.
ExampleHead(title, l1, l2) == << << >>, Chars(title), << >>, Chars(l1), Chars(l2) >>

\* ProductsStrategy.create_template
products_create_template ==
    BuildTemplate("products/semantic-boundary", "product-catalog", "Nome:\\s*([^\\n]+)",
        << << Chars("business"), JStr(client_name) >>,
           << Chars("type"), JStr(Chars("product-catalog")) >>,
           << Chars("version"), JStr(Chars("1.0")) >> >>,
        ExampleHead("# Product Catalog Template",
                    "Nome: Exemplo de Produto 1", "Categoria: Categoria Exemplo"))

\* ManualStrategy.create_template
manual_create_template ==
    BuildTemplate("manual/section-based", "user-manual", "^#{1,6}\\s+(.+)$",
        TypeVersionStructure("user-manual", "hierarchical"),
        ExampleHead("# User Manual Template", "## 1. Introduction", ""))

\* FAQStrategy.create_template
faq_create_template ==
    BuildTemplate("faq/qa-pairs", "faq",
        "(Q:|Question:|Pergunta:)\\s*(.+?)(?=(Q:|Question:|Pergunta:|A:|Answer:|Resposta:))",
        TypeVersionStructure("faq", "qa-pairs"),
        ExampleHead("# FAQ Template", "Q: What is this product/service?",
            "A: This is a comprehensive explanation of what the product or service does and its main benefits."))

\* ArticleStrategy.create_template
article_create_template ==
    BuildTemplate("article/sentence-based", "article", "[.!?]+\\s+",
        TypeVersionStructure("article", "narrative"),
        ExampleHead("# Article Template", "## Introduction", ""))

\* LegalStrategy.create_template
legal_create_template ==
    BuildTemplate("legal/paragraph-based", "legal-document", "\\n\\n+",
        TypeVersionStructure("legal-document", "legal"),
        ExampleHead("# Legal Document Template", "## Article 1 - Definitions", ""))

\* CodeStrategy.create_template
code_create_template ==
    BuildTemplate("code/function-based", "code-documentation",
        "(def\\s+\\w+\\(|function\\s+\\w+\\(|class\\s+\\w+|##\\s+[A-Z])",
        TypeVersionStructure("code-documentation", "functional"),
        ExampleHead("# Code Documentation Template", "## Overview", ""))

\* StructuredBlocksStrategy.separator_type of the three variants
separator_type(name) ==
    CASE name = "structured-blocks/empty-line-separated" -> "empty-line-separated"
      [] name = "structured-blocks/heading-separated" -> "heading-separated"
      [] name = "structured-blocks/numbered-separated" -> "numbered-separated"

\* _get_template_examples of the three variants (first lines)
structured_template_examples(name) ==
    CASE name = "structured-blocks/empty-line-separated" ->
            << Chars("Name: Example Item 1"),
               Chars("Description: First example item with details") >>
      [] name = "structured-blocks/heading-separated" ->
            << Chars("# Main Section 1"), << >> >>
      [] name = "structured-blocks/numbered-separated" ->
            << Chars("1. First step or item in the sequence"),
               Chars("   This can include multiple lines of explanation") >>

\* StructuredBlocksStrategy.create_template
structured_create_template(name) ==
    LET template_parts ==
            << Chars("#!/usr/bin/env rag-processor"),
               Chars("#!strategy: ") \o Chars(name),
               Chars("#!validation: ") \o client_name \o Chars("/structured-blocks") >>
        metadata ==
            DictUpdate(<< << Chars("business"), JStr(client_name) >>,
                          << Chars("type"), JStr(Chars("structured-blocks")) >>,
                          << Chars("separator"), JStr(Chars(separator_type(name))) >>,
                          << Chars("version"), JStr(Chars("1.0")) >> >>,
                       get_template_metadata)
        with_md == Append(template_parts, Chars("#!metadata: ") \o Dumps(JObj(metadata)))
        title == Chars("# Structured Blocks Template (") \o Chars(separator_type(name))
                 \o Chars(")")
    IN  Join(with_md \o << << >>, title, << >> >> \o structured_template_examples(name),
             << "\n" >>)

\* strategy.create_template(client_config) of the strategy registered as name
create_template(name) ==
    CASE name = "products/semantic-boundary" -> products_create_template
      [] name = "manual/section-based" -> manual_create_template
      [] name = "faq/qa-pairs" -> faq_create_template
      [] name = "article/sentence-based" -> article_create_template
      [] name = "legal/paragraph-based" -> legal_create_template
      [] name = "code/function-based" -> code_create_template
      [] OTHER -> structured_create_template(name)

\* CSVConverter._create_rag_content(content, strategy, source_url, metadata,
\* csv_file, row_count), with the default delimiter and no custom metadata.
\* source_file is Path(csv_file).name.
create_rag_content(text, strategy, source_url, source_file, row_count) ==
    LET header_lines ==
            << Chars("#!/usr/bin/env rag-processor"),
               Chars("#!strategy: ") \o Chars(strategy) >>
        with_url == IF TruthyStr(source_url)
                    THEN Append(header_lines, Chars("#!source-url: ") \o source_url[1])
                    ELSE header_lines
        file_metadata ==
            << << Chars("source_file"), JStr(source_file) >>,
               << Chars("source_format"), JStr(Chars("csv")) >>,
               << Chars("rows_processed"), JNum(row_count) >>,
               << Chars("converted_by"), JStr(Chars("csv-input-plugin")) >>,
               << Chars("delimiter"), JStr(Chars(",")) >> >>
        all_lines == Append(with_url, Chars("#!metadata: ") \o Dumps(JObj(file_metadata)))
    IN  Join(all_lines, << "\n" >>) \o << "\n", "\n" >> \o text

(***************************************************************************)
(* TextChunker (utils/text_utils.py)                                       *)
(***************************************************************************)

\* ChunkMetadata: the text, the offsets and the metadata entries of a chunk.
ChunkMetadata(text, start, end, index, method) ==
    [text |-> text, start_position |-> start, end_position |-> end,
     chunk_index |-> index, chunking_method |-> method]

\* re.finditer(r'\s+', s): the maximal whitespace runs of s, each as
\* <<start, end>> with 0-based start and exclusive end.
WhitespaceRuns(s) == Runs(s, IsSpace)

\* How far around the target end chunk_by_size looks for a word boundary.
BOUNDARY_WINDOW == 100

\* A window end that is not clamped to the end of the text.
WindowEndUnclamped(text, chunk_size, start_pos) == start_pos + chunk_size

\* The end position of the chunk_by_size window that starts at start_pos:
\* the target end, moved to the end of the whitespace run closest to it.
WindowEnd(text, chunk_size, start_pos) ==
    LET target_end == Min2(start_pos + chunk_size, Len(text))
        low == Max2(target_end - BOUNDARY_WINDOW, start_pos)
        boundary_search == Slice(text, low, target_end + BOUNDARY_WINDOW)
        word_boundaries == WhitespaceRuns(boundary_search)
        target_offset == Min2(BOUNDARY_WINDOW, target_end - low)
        Dist(b) == IF b[1] >= target_offset THEN b[1] - target_offset
                   ELSE target_offset - b[1]
        \* min(..., key=...) returns the first of the closest boundaries
        closest_boundary ==
            CHOOSE b \in word_boundaries :
                \A c \in word_boundaries :
                    Dist(b) < Dist(c) \/ (Dist(b) = Dist(c) /\ b[1] <= c[1])
    IN  IF target_end < Len(text) /\ word_boundaries # {}
        THEN low + closest_boundary[2]
        ELSE target_end

\* A next start position that only steps back by the overlap.
NextStartByOverlap(start, end, overlap) == end - overlap

\* start = max(start + 1, end - overlap): where the next iteration of
\* chunk_by_size and of _split_large_chunk starts.
NextStart(start, end, overlap) == Max2(start + 1, end - overlap)

\* One iteration of the while loop of chunk_by_size, for the window end
\* end_pos.  The loop state is the start position, the chunks so far and
\* whether the loop has hit its break; skipped records the windows that were
\* too small to become a chunk.
SizeLoopStepTo(text, overlap, min_size, st, end_pos) ==
    LET chunk_text == Strip(Slice(text, st.start_pos, end_pos))
        chunk == ChunkMetadata(chunk_text, st.start_pos, end_pos,
                               Len(st.chunks), "size-based")
        next_start == NextStart(st.start_pos, end_pos, overlap)
    IN  [start_pos |-> next_start,
         chunks |-> IF Len(chunk_text) >= min_size \/ end_pos >= Len(text)
                    THEN Append(st.chunks, chunk) ELSE st.chunks,
         skipped |-> IF Len(chunk_text) >= min_size \/ end_pos >= Len(text)
                     THEN st.skipped
                     ELSE Append(st.skipped, << st.start_pos, end_pos >>),
         broke |-> next_start >= end_pos /\ end_pos >= Len(text)]

SizeLoopStep(text, chunk_size, overlap, min_size, st) ==
    CHOOSE next \in { SizeLoopStepTo(text, overlap, min_size, st, end_pos) :
                         end_pos \in {WindowEnd(text, chunk_size, st.start_pos)} } : TRUE

SizeLoopStart == [start_pos |-> 0, chunks |-> << >>, skipped |-> << >>, broke |-> FALSE]

\* while start_pos < len(text): ... break
SizeLoopRuns(text, st) == ~st.broke /\ st.start_pos < Len(text)

RECURSIVE SizeLoop(_, _, _, _, _)
SizeLoop(text, chunk_size, overlap, min_size, st) ==
    IF SizeLoopRuns(text, st)
    THEN SizeLoop(text, chunk_size, overlap, min_size,
                  SizeLoopStep(text, chunk_size, overlap, min_size, st))
    ELSE st

\* TextChunker.chunk_by_size
chunk_by_size(text, chunk_size, overlap, min_size) ==
    SizeLoop(text, chunk_size, overlap, min_size, SizeLoopStart).chunks

\* str.rfind(' ', start, end): the greatest offset in start..end-1 holding a
\* space, or -1.
RFindSpace(s, start, end) ==
    LET hits == {k \in start..(Min2(end, Len(s)) - 1) : s[k + 1] = " "}
    IN  IF hits = {} THEN -1 ELSE SetMax(hits)

\* Where the sub-chunk of _split_large_chunk that starts at start ends: at
\* the target end, or at the last space before it.
SplitEnd(chunk_text, max_size, start) ==
    LET target_end == Min2(start + max_size, Len(chunk_text))
        last_space == RFindSpace(chunk_text, start, target_end)
    IN  IF target_end < Len(chunk_text) /\ last_space > start
        THEN last_space ELSE target_end

\* One iteration of the while loop of _split_large_chunk, for the sub-chunk
\* end end.  The loop state has the shape of chunk_by_size's: the start
\* position, the sub-chunks so far, and as skipped the spans whose text was
\* empty after trimming; this loop has no break.
SplitLoopStepTo(chunk_text, overlap, base_start_pos, st, end) ==
    LET sub_text == Strip(Slice(chunk_text, st.start_pos, end))
        sub_chunk == ChunkMetadata(sub_text, base_start_pos + st.start_pos,
                                   base_start_pos + end, Len(st.chunks),
                                   "large-chunk-split")
    IN  [start_pos |-> NextStart(st.start_pos, end, overlap),
         chunks |-> IF sub_text # << >> THEN Append(st.chunks, sub_chunk)
                    ELSE st.chunks,
         skipped |-> IF sub_text # << >> THEN st.skipped
                     ELSE Append(st.skipped, << st.start_pos, end >>),
         broke |-> FALSE]

SplitLoopStep(chunk_text, max_size, overlap, base_start_pos, st) ==
    SplitLoopStepTo(chunk_text, overlap, base_start_pos, st,
                    SplitEnd(chunk_text, max_size, st.start_pos))

\* while start < len(chunk_text)
SplitLoopRuns(chunk_text, st) == st.start_pos < Len(chunk_text)

\* TextChunker._split_large_chunk: the while loop from the loop state st on.
RECURSIVE SplitLoop(_, _, _, _, _)
SplitLoop(chunk_text, max_size, overlap, base_start_pos, st) ==
    IF SplitLoopRuns(chunk_text, st)
    THEN SplitLoop(chunk_text, max_size, overlap, base_start_pos,
                   SplitLoopStep(chunk_text, max_size, overlap, base_start_pos, st))
    ELSE st

split_large_chunk(chunk_text, max_size, overlap, base_start_pos) ==
    SplitLoop(chunk_text, max_size, overlap, base_start_pos, SizeLoopStart).chunks

\* re.finditer(pattern, text) for a pattern that is one literal character:
\* the 0-based offsets of its matches, in order.
RECURSIVE FindAll(_, _, _)
FindAll(text, pattern, from) ==
    LET k == Find(text, << pattern >>, from)
    IN  IF k < 0 THEN << >> ELSE << k >> \o FindAll(text, pattern, k + 1)

\* TextChunker.chunk_by_pattern: the for loop over the boundaries from i on.
RECURSIVE PatternLoop(_, _, _, _, _, _, _, _)
PatternLoop(text, boundaries, overlap, min_size, max_size, i, start_pos, chunks) ==
    IF i > Len(boundaries) THEN chunks
    ELSE
        LET end_pos == IF i < Len(boundaries) THEN boundaries[i + 1] ELSE Len(text)
            chunk_text == Strip(Slice(text, start_pos, end_pos))
            chunk == ChunkMetadata(chunk_text, start_pos, end_pos, Len(chunks),
                                   "pattern-based")
        IN  IF Len(chunk_text) < min_size
            THEN \* continue: the start position is not advanced
                 PatternLoop(text, boundaries, overlap, min_size, max_size,
                             i + 1, start_pos, chunks)
            ELSE PatternLoop(text, boundaries, overlap, min_size, max_size,
                             i + 1, Max2(0, end_pos - overlap),
                             IF Len(chunk_text) > max_size
                             THEN chunks \o split_large_chunk(chunk_text, max_size,
                                                              overlap, start_pos)
                             ELSE Append(chunks, chunk))

\* TextChunker.chunk_by_pattern: the candidates its for loop skips for being
\* below min_size, as the spans <<start_pos, end_pos>> they were cut from.
RECURSIVE PatternSkips(_, _, _, _, _, _)
PatternSkips(text, boundaries, overlap, min_size, i, start_pos) ==
    IF i > Len(boundaries) THEN << >>
    ELSE
        LET end_pos == IF i < Len(boundaries) THEN boundaries[i + 1] ELSE Len(text)
        IN  IF Len(Strip(Slice(text, start_pos, end_pos))) < min_size
            THEN << << start_pos, end_pos >> >>
                 \o PatternSkips(text, boundaries, overlap, min_size, i + 1, start_pos)
            ELSE PatternSkips(text, boundaries, overlap, min_size, i + 1,
                              Max2(0, end_pos - overlap))

\* TextChunker.chunk_by_pattern once re.finditer has given the boundaries, as
\* the start offsets of the matches.
ChunkAtBoundaries(text, boundaries, overlap, min_size, max_size) ==
    IF boundaries = << >>
    THEN chunk_by_size(text, max_size, overlap, min_size)
    ELSE PatternLoop(text, boundaries, overlap, min_size, max_size, 1, 0, << >>)

chunk_by_pattern(text, pattern, overlap, min_size, max_size) ==
    ChunkAtBoundaries(text, FindAll(text, pattern, 0), overlap, min_size, max_size)

(***************************************************************************)
(* Chunking strategies (rag_processor/strategies): products, article and   *)
(* the three structured-blocks variants.  A strategy's process gives back  *)
(* its chunks or raises; dropped records the spans <<start, end>> of the   *)
(* candidates it removed for being below its minimum size.                 *)
(***************************************************************************)

MINIMUM_CHUNK_SIZE == 50

PRODUCTS_CHUNK_OVERLAP == 0

ARTICLE_CHUNK_OVERLAP == 100

StrategyResult(status, chunks, dropped) ==
    [status |-> status, chunks |-> chunks, dropped |-> dropped]

\* ChunkMetadata whose metadata dictionary also has the key 'strategy'.
StrategyChunk(text, start, end, index, method, strategy) ==
    [text |-> text, start_position |-> start, end_position |-> end,
     chunk_index |-> index, chunking_method |-> method, strategy |-> strategy]

\* return chunker.chunk_by_size(content, chunk_size, overlap): a strategy's
\* size-based fallback, with the chunker's default min_size.
FallbackResult(st) == StrategyResult("ok", st.chunks, st.skipped)

SizeFallback(content, chunk_size, overlap) ==
    FallbackResult(SizeLoop(content, chunk_size, overlap, MINIMUM_CHUNK_SIZE, SizeLoopStart))

\* re.finditer(r'(?i)<field>:\s*([^\n]*)', content): the start offsets of the
\* matches from offset from on; low is content in lower case.  A match runs
\* over the whitespace after the colon to the end of the line it reaches.
RECURSIVE FieldMatches(_, _, _, _)
FieldMatches(content, low, field, from) ==
    LET k == Find(low, field \o << ":" >>, from)
        after == k + Len(field) + 1
        value_start == after + LeadingCount(content, after, IsSpace)
        line_end == Find(content, << "\n" >>, value_start)
    IN  IF k < 0 THEN << >>
        ELSE << k >> \o FieldMatches(content, low, field,
                                     IF line_end < 0 THEN Len(content) ELSE line_end)

\* ProductsStrategy._find_product_boundaries: the first of the core patterns
\* with the most matches.
find_product_boundaries(content) ==
    LET core_patterns == << Chars("name"), Chars("description"), Chars("price"),
                            Chars("product"), Chars("item") >>
        best[n \in 0..Len(core_patterns)] ==
            IF n = 0 THEN << >>
            ELSE LET matches == FieldMatches(content, Lower(content), core_patterns[n], 0)
                 IN  IF Len(matches) > Len(best[n - 1]) THEN matches ELSE best[n - 1]
    IN  best[Len(core_patterns)]

\* re.findall(r'(?i)^([a-zA-Z][a-zA-Z\s]*?):\s*([^\n]*)', section, re.MULTILINE)
\* finds at least one match.
HasFieldLine(section) ==
    \E p \in 1..Len(section), q \in 1..Len(section) :
        /\ p < q
        /\ p = 1 \/ section[p - 1] = "\n"
        /\ IsLetter(section[p])
        /\ section[q] = ":"
        /\ \A i \in p..(q - 1) : IsLetter(section[i]) \/ IsSpace(section[i])

\* ProductsStrategy._fallback_boundary_detection: the for loop from section n
\* on; the result holds the section_start of every Match object it builds.
RECURSIVE FallbackLoop(_, _, _, _)
FallbackLoop(content, sections, n, current_pos) ==
    IF n > Len(sections) THEN << >>
    ELSE LET section == Strip(sections[n])
             section_start == Find(content, section, current_pos)
         IN  IF section = << >>
             THEN FallbackLoop(content, sections, n + 1, current_pos + 2)
             ELSE (IF HasFieldLine(section) /\ section_start >= 0
                   THEN << section_start >> ELSE << >>)
                  \o FallbackLoop(content, sections, n + 1,
                                  current_pos + Len(section) + 2)

fallback_boundary_detection(content) ==
    FallbackLoop(content, SplitParagraphs(content), 1, 0)

\* ProductsStrategy.process: the for loop over the matches from match i on.
RECURSIVE ProductLoop(_, _, _, _)
ProductLoop(content, product_matches, i, result) ==
    IF i > Len(product_matches) THEN result
    ELSE LET start_pos == product_matches[i]
             end_pos == IF i < Len(product_matches) THEN product_matches[i + 1]
                        ELSE Len(content)
             product_text == Strip(Slice(content, start_pos, end_pos))
             chunk == StrategyChunk(product_text, start_pos, end_pos, Len(result.chunks),
                                    "semantic-boundary", "products/semantic-boundary")
         IN  ProductLoop(content, product_matches, i + 1,
                         IF Len(product_text) < 50
                         THEN [result EXCEPT !.dropped = Append(@, << start_pos, end_pos >>)]
                         ELSE [result EXCEPT !.chunks = Append(@, chunk)])

\* ProductsStrategy.process.  The Match objects the fallback detection builds
\* have a start attribute that takes no argument, so calling match.start() on
\* the first of them raises TypeError.
products_process(content) ==
    LET product_matches == find_product_boundaries(content)
        fallback_matches == fallback_boundary_detection(content)
    IN  IF product_matches # << >>
        THEN ProductLoop(content, product_matches, 1, StrategyResult("ok", << >>, << >>))
        ELSE IF fallback_matches # << >>
        THEN StrategyResult("raised", << >>, << >>)
        ELSE SizeFallback(content, 1000, PRODUCTS_CHUNK_OVERLAP)

\* The offsets at which a line of content starts (^ under re.MULTILINE).
LineStarts(content) ==
    {0} \cup {p \in 1..(Len(content) - 1) : content[p] = "\n"}

\* The matches of HeadingSeparatedStrategy.separator_pattern, r'^#{1,6}\s+.+$':
\* one to six '#' at a line start, whitespace, and the rest of the line that
\* the whitespace reaches.  When only whitespace follows, \s+ gives back its
\* last character that is not a newline.
HeadingMatches(content) ==
    LET n == Len(content)
        IsHash(c) == c = "#"
        HashCount(p) == LeadingCount(content, p, IsHash)
        SpaceCount(p) == LeadingCount(content, p, IsSpace)
        Given(p) == {v \in (p + HashCount(p) + 1)..(n - 1) : content[v + 1] # "\n"}
        ValueStart(p) ==
            LET a == p + HashCount(p) + SpaceCount(p + HashCount(p))
            IN  IF a < n THEN a
                ELSE IF Given(p) # {} THEN SetMax(Given(p)) ELSE -1
        LineEnd(v) == IF Find(content, << "\n" >>, v) < 0 THEN n
                      ELSE Find(content, << "\n" >>, v)
    IN  { << p, LineEnd(ValueStart(p)) >> :
            p \in {q \in LineStarts(content) :
                     /\ q < n
                     /\ HashCount(q) \in 1..6
                     /\ SpaceCount(q + HashCount(q)) >= 1
                     /\ ValueStart(q) >= 0} }

\* The matches of NumberedSeparatedStrategy.separator_pattern, r'^\d+\.\s+'
NumberedMatches(content) ==
    LET n == Len(content)
        DigitCount(p) == LeadingCount(content, p, IsDigit)
        SpaceCount(p) == LeadingCount(content, p, IsSpace)
        Dot(p) == p + DigitCount(p)
    IN  { << p, Dot(p) + 1 + SpaceCount(Dot(p) + 1) >> :
            p \in {q \in LineStarts(content) :
                     /\ q < n
                     /\ DigitCount(q) >= 1
                     /\ Dot(q) < n /\ content[Dot(q) + 1] = "."
                     /\ SpaceCount(Dot(q) + 1) >= 1} }

\* _split_into_blocks of the three variants.  The separator type of the
\* empty-line variant is 'empty-line-separated', so the base class splits by
\* its separator pattern r'\n\s*\n'; the other two keep each separator with
\* the text that follows it.
split_into_blocks(variant, content) ==
    LET matches == TakeMatches(IF variant = "heading-separated"
                               THEN HeadingMatches(content)
                               ELSE NumberedMatches(content), 0)
        Block(i) == Strip(Slice(content, matches[i][1],
                                IF i < Len(matches) THEN matches[i + 1][1]
                                ELSE Len(content)))
        NotBlank(block) == Strip(block) # << >>
    IN  IF variant = "empty-line-separated"
        THEN SelectSeq(SplitParagraphs(content), NotBlank)
        ELSE IF matches = << >> THEN << content >>
        ELSE SelectSeq([i \in 1..Len(matches) |-> Block(i)], NotBlank)

\* StructuredBlocksStrategy.process: the for loop over the blocks from block i
\* on.  No variant limits lines or fields, so _validate_block accepts every
\* block, and _get_separator_text is one newline for all three.
RECURSIVE BlockLoop(_, _, _, _, _, _)
BlockLoop(variant, content, blocks, i, current_pos, chunks) ==
    IF i > Len(blocks) THEN chunks
    ELSE LET block_text == Strip(blocks[i])
             found == Find(content, block_text, current_pos)
             start_pos == IF found = -1 THEN current_pos ELSE found
             end_pos == start_pos + Len(block_text)
             chunk == StrategyChunk(block_text, start_pos, end_pos, Len(chunks),
                                    "mechanical-separation",
                                    "structured-blocks/" \o variant)
         IN  IF block_text = << >>
             THEN BlockLoop(variant, content, blocks, i + 1,
                            current_pos + Len(blocks[i]) + 1, chunks)
             ELSE BlockLoop(variant, content, blocks, i + 1, end_pos + 1,
                            Append(chunks, chunk))

\* The body has an occurrence of the separator of the structured-blocks
\* variant: a blank line, a heading line or a numbered line.
HasSeparator(variant, content) ==
    CASE variant = "empty-line-separated" -> ParagraphBreaks(content) # {}
      [] variant = "heading-separated" -> HeadingMatches(content) # {}
      [] variant = "numbered-separated" -> NumberedMatches(content) # {}

\* StructuredBlocksStrategy.process
structured_process(variant, content) ==
    LET blocks == split_into_blocks(variant, content)
    IN  IF blocks = << >> THEN SizeFallback(content, 1000, 0)
        ELSE StrategyResult("ok", BlockLoop(variant, content, blocks, 1, 0, << >>), << >>)

\* sum(len(s["text"]) for s in sentences)
RECURSIVE TotalLength(_)
TotalLength(sentences) ==
    IF sentences = << >> THEN 0
    ELSE Len(sentences[1].text) + TotalLength(Tail(sentences))

\* ArticleStrategy._extract_sentences_with_boundaries: the for loop over the
\* paragraphs from paragraph n on.  A sentence ends with the whitespace after
\* a run of '.', '!' or '?'.
RECURSIVE ExtractSentences(_, _, _, _)
ExtractSentences(content, paragraphs, n, position) ==
    IF n > Len(paragraphs) THEN << >>
    ELSE
        LET paragraph == paragraphs[n]
            IsTerminator(c) == c \in {".", "!", "?"}
            para_start == Find(content, Strip(paragraph), position)
            sentence_boundaries ==
                TakeMatches({ << r[1], r[2] + LeadingCount(paragraph, r[2], IsSpace) >> :
                                r \in Runs(paragraph, IsTerminator) }, 0)
            Sentence(text, sentence_start) ==
                [text |-> text, paragraph_index |-> n - 1,
                 absolute_position |-> para_start + sentence_start]
            upto[k \in 0..Len(sentence_boundaries)] ==
                IF k = 0 THEN << >>
                ELSE LET sentence_start == IF k = 1 THEN 0 ELSE sentence_boundaries[k - 1][2]
                         sentence_text == Strip(Slice(paragraph, sentence_start,
                                                      sentence_boundaries[k][2]))
                     IN  IF sentence_text = << >> THEN upto[k - 1]
                         ELSE Append(upto[k - 1], Sentence(sentence_text, sentence_start))
        IN  IF Strip(paragraph) = << >>
            THEN ExtractSentences(content, paragraphs, n + 1, position)
            ELSE (IF sentence_boundaries = << >>
                  THEN << Sentence(Strip(paragraph), 0) >>
                  ELSE upto[Len(sentence_boundaries)])
                 \o ExtractSentences(content, paragraphs, n + 1,
                                     para_start + Len(paragraph))

\* ArticleStrategy._create_sentence_chunk
create_sentence_chunk(sentence_list, chunk_index) ==
    LET chunk_text == Join([i \in 1..Len(sentence_list) |-> sentence_list[i].text],
                           << " " >>)
        start_pos == sentence_list[1].absolute_position
    IN  StrategyChunk(chunk_text, start_pos, start_pos + Len(chunk_text), chunk_index,
                      "sentence-based", "article/sentence-based")

\* ArticleStrategy._get_overlap_sentences: the longest run of last sentences
\* whose lengths sum to at most overlap_chars.
get_overlap_sentences(sentences, overlap_chars) ==
    LET n == Len(sentences)
        fits == {m \in 0..n : TotalLength(SubSeq(sentences, n - m + 1, n)) <= overlap_chars}
    IN  SubSeq(sentences, n - SetMax(fits) + 1, n)

\* ArticleStrategy._chunk_by_sentences: the for loop from sentence n on, and
\* the final chunk.
RECURSIVE SentenceLoop(_, _, _, _, _)
SentenceLoop(sentences, n, current, overlap, chunks) ==
    IF n > Len(sentences)
    THEN IF current # << >>
         THEN Append(chunks, create_sentence_chunk(current, Len(chunks)))
         ELSE chunks
    ELSE
        LET current_chunk_size == TotalLength(current)
            sentence_size == Len(sentences[n].text)
            would_exceed_target == current_chunk_size + sentence_size > 1000
            would_exceed_max == current_chunk_size + sentence_size > 1500
            full == /\ current # << >>
                    /\ would_exceed_max \/ (would_exceed_target /\ current_chunk_size > 500)
            kept == IF ~full THEN current
                    ELSE IF overlap > 0 THEN get_overlap_sentences(current, overlap)
                    ELSE << >>
        IN  SentenceLoop(sentences, n + 1, Append(kept, sentences[n]), overlap,
                         IF full
                         THEN Append(chunks, create_sentence_chunk(current, Len(chunks)))
                         ELSE chunks)

\* ArticleStrategy.process
article_process(content) ==
    LET sentences == ExtractSentences(content, SplitParagraphs(content), 1, 0)
        chunks == SentenceLoop(sentences, 1, << >>, ARTICLE_CHUNK_OVERLAP, << >>)
    IN  IF chunks = << >> THEN SizeFallback(content, 1200, ARTICLE_CHUNK_OVERLAP)
        ELSE StrategyResult("ok", chunks, << >>)

\* Legal strategy (strategies/legal.py)

LEGAL_CHUNK_OVERLAP == 250

\* The end of the line that holds offset v.
LineEnd(content, v) ==
    IF Find(content, << "\n" >>, v) < 0 THEN Len(content) ELSE Find(content, << "\n" >>, v)

\* The class [:\-\s]
IsTitleSeparator(c) == c \in {":", "-"} \/ IsSpace(c)

\* Where the tail [:\-\s]*(.*)$ of a section pattern ends when it starts at
\* offset q: the separators, which may run over line ends, and the rest of the
\* line they reach.
SectionTailEnd(content, q) ==
    LineEnd(content, q + LeadingCount(content, q, IsTitleSeparator))

\* The matches of r'^(<word>\s+\d+)[:\-\s]*(.*)$' under re.MULTILINE and
\* re.IGNORECASE, for a word in lower case.
KeywordSectionMatches(content, word) ==
    LET low == Lower(content)
        Spaces(p) == LeadingCount(content, p + Len(word), IsSpace)
        Digits(p) == LeadingCount(content, p + Len(word) + Spaces(p), IsDigit)
    IN  { << p, SectionTailEnd(content, p + Len(word) + Spaces(p) + Digits(p)) >> :
            p \in {q \in LineStarts(content) :
                     /\ Slice(low, q, q + Len(word)) = word
                     /\ Spaces(q) >= 1
                     /\ Digits(q) >= 1} }

\* The matches of r'^(\d+\.\d*)[:\-\s]*(.*)$'
DecimalSectionMatches(content) ==
    LET n == Len(content)
        Digits(p) == LeadingCount(content, p, IsDigit)
        Dot(p) == p + Digits(p)
    IN  { << p, SectionTailEnd(content,
                               Dot(p) + 1 + LeadingCount(content, Dot(p) + 1, IsDigit)) >> :
            p \in {q \in LineStarts(content) :
                     /\ Digits(q) >= 1
                     /\ Dot(q) < n /\ content[Dot(q) + 1] = "."} }

\* The matches of r'^([A-Z][A-Z\s]{5,30})\s*$' under re.IGNORECASE: a letter,
\* then as many letters and whitespace characters as leave the match at the
\* end of a line, at least 5 and at most 30, then whitespace.
CapsSectionMatches(content) ==
    LET n == Len(content)
        IsLetterOrSpace(c) == IsLetter(c) \/ IsSpace(c)
        Run(p) == Min2(LeadingCount(content, p + 1, IsLetterOrSpace), 30)
        Ends(p, k) ==
            {e \in (p + 1 + k)..(p + 1 + k + LeadingCount(content, p + 1 + k, IsSpace)) :
                e = n \/ (e < n /\ content[e + 1] = "\n")}
        Takes(p) == {k \in 5..Run(p) : Ends(p, k) # {}}
    IN  { << p, SetMax(Ends(p, SetMax(Takes(p)))) >> :
            p \in {q \in LineStarts(content) :
                     /\ q < n
                     /\ IsLetter(content[q + 1])
                     /\ Takes(q) # {}} }

\* LegalStrategy._extract_legal_sections: the matches of the first of the
\* section patterns that has any.
LegalSectionMatches(content) ==
    LET article == KeywordSectionMatches(content, Chars("article"))
                   \cup KeywordSectionMatches(content, Chars("artigo"))
        section == KeywordSectionMatches(content, Chars("section"))
                   \cup KeywordSectionMatches(content,
                                              Chars("se") \o << "U+00E7", "U+00E3" >> \o Chars("o"))
        decimal == DecimalSectionMatches(content)
        caps == CapsSectionMatches(content)
    IN  TakeMatches(IF article # {} THEN article
                    ELSE IF section # {} THEN section
                    ELSE IF decimal # {} THEN decimal
                    ELSE caps, 0)

\* LegalStrategy._extract_legal_sections: the candidate section of every
\* match, from its start to the start of the next match.
CandidatesOf(content, matches) ==
    [i \in 1..Len(matches) |->
       LET section_start == matches[i][1]
           section_end == IF i < Len(matches) THEN matches[i + 1][1] ELSE Len(content)
       IN  [text |-> Strip(Slice(content, section_start, section_end)),
            start_pos |-> section_start, end_pos |-> section_end]]

LegalCandidates(content) == CandidatesOf(content, LegalSectionMatches(content))

\* Only sections of more than 100 characters are kept.
IsSubstantialSection(section) == Len(section.text) > 100

extract_legal_sections(content) == SelectSeq(LegalCandidates(content), IsSubstantialSection)

\* LegalStrategy._process_legal_sections for sections of at most 2000
\* characters, each of which becomes one chunk.
process_legal_sections(sections) ==
    [i \in 1..Len(sections) |->
        StrategyChunk(sections[i].text, sections[i].start_pos, sections[i].end_pos,
                      i - 1, "legal-section", "legal/paragraph-based")]

\* LegalStrategy._process_paragraphs: the for loop from paragraph n on and the
\* final chunk.  st holds current_chunk_paras, current_size, position and the
\* chunks so far.
RECURSIVE LegalParagraphLoop(_, _, _)
LegalParagraphLoop(paragraphs, n, st) ==
    LET Chunk(s) == StrategyChunk(Join(s.paras, << "\n", "\n" >>), s.position - s.size,
                                  s.position, Len(s.chunks), "paragraph-based",
                                  "legal/paragraph-based")
    IN  IF n > Len(paragraphs)
        THEN IF st.paras # << >> THEN Append(st.chunks, Chunk(st)) ELSE st.chunks
        ELSE LET paragraph == Strip(paragraphs[n])
                 flushed == IF st.paras # << >> /\ st.size + Len(paragraph) > 1500
                            THEN [st EXCEPT !.chunks = Append(@, Chunk(st)),
                                            !.paras = << >>, !.size = 0]
                            ELSE st
             IN  IF paragraph = << >> THEN LegalParagraphLoop(paragraphs, n + 1, st)
                 ELSE LegalParagraphLoop(paragraphs, n + 1,
                        [flushed EXCEPT !.paras = Append(@, paragraph),
                                        !.size = @ + Len(paragraph),
                                        !.position = @ + Len(paragraph) + 2])

process_paragraphs(content) ==
    LegalParagraphLoop(SplitParagraphs(content), 1,
                       [paras |-> << >>, size |-> 0, position |-> 0, chunks |-> << >>])

\* The start offsets of the matches of r'\n\s*\n', in order.
ParagraphBoundaries(content) ==
    LET matches == TakeMatches(ParagraphBreaks(content), 0)
    IN  [i \in 1..Len(matches) |-> matches[i][1]]

\* LegalStrategy.process without sections: the paragraph chunks, or the
\* chunks cut at the paragraph boundaries when there is no paragraph chunk.
LegalWithoutSections(content, chunks) ==
    IF chunks = << >>
    THEN StrategyResult("ok",
                        ChunkAtBoundaries(content, ParagraphBoundaries(content),
                                          LEGAL_CHUNK_OVERLAP, MINIMUM_CHUNK_SIZE, 2000),
                        << >>)
    ELSE StrategyResult("ok", chunks, << >>)

\* LegalStrategy.process from the candidate sections on.  dropped holds the
\* candidate sections that were not substantial.
LegalWithCandidates(content, candidates) ==
    LET sections == SelectSeq(candidates, IsSubstantialSection)
        NotSubstantial(section) == ~IsSubstantialSection(section)
        small == SelectSeq(candidates, NotSubstantial)
        dropped == [i \in 1..Len(small) |-> << small[i].start_pos, small[i].end_pos >>]
    IN  IF \E i \in 1..Len(sections) : Len(sections[i].text) > 2000
        THEN StrategyResult("unmodelled", << >>, << >>)
        ELSE IF sections # << >>
        THEN StrategyResult("ok", process_legal_sections(sections), dropped)
        ELSE LegalWithoutSections(content, process_paragraphs(content))

\* LegalStrategy.process.  _split_large_legal_section, which takes the sections
\* of more than 2000 characters, is not modelled: a body with such a section
\* gives the status "unmodelled".
legal_process(content) == LegalWithCandidates(content, LegalCandidates(content))

(***************************************************************************)
(* FAQStrategy (strategies/faq.py)                                         *)
(***************************************************************************)

FAQ_CHUNK_OVERLAP == 0

\* The alternatives of (Q:|Question:|Pergunta:) and of (A:|Answer:|Resposta:),
\* in lower case: _extract_qa_pairs matches them under re.IGNORECASE.
QuestionMarkers == << Chars("q:"), Chars("question:"), Chars("pergunta:") >>

AnswerMarkers == << Chars("a:"), Chars("answer:"), Chars("resposta:") >>

\* The length of the alternative of markers that matches at offset k of low,
\* or 0 when none does.
MarkerAt(low, markers, k) ==
    LET hits == {i \in 1..Len(markers) : Slice(low, k, k + Len(markers[i])) = markers[i]}
    IN  IF hits = {} THEN 0 ELSE Len(markers[SetMin(hits)])

\* Whether [^Q]* can run over content[a:b]: under re.IGNORECASE the class
\* excludes both 'Q' and 'q'.  low is content in lower case.
NoQ(low, a, b) == \A i \in (a + 1)..b : low[i] # "q"

\* The match of qa_pattern that starts at offset p, if there is one.  The lazy
\* group 2 stops at the first answer marker, which no 'q' may precede; the
\* lazy group 4 starts after the whitespace behind that marker and stops at
\* the first offset where a question marker or the end of the text follows ($
\* also matches before a final newline), which no 'q' may precede either.
QaMatchAt(content, low, p) ==
    LET n == Len(content)
        m1 == p + MarkerAt(low, QuestionMarkers, p)
        answers == {a \in m1..n : MarkerAt(low, AnswerMarkers, a) > 0 /\ NoQ(low, m1, a)}
        a == SetMin(answers)
        m3 == a + MarkerAt(low, AnswerMarkers, a)
        from == m3 + LeadingCount(content, m3, IsSpace)
        Ahead(e) == \/ MarkerAt(low, QuestionMarkers, e) > 0
                    \/ e = n
                    \/ e = n - 1 /\ content[n] = "\n"
        ends == {e \in from..n : Ahead(e) /\ NoQ(low, m3, e)}
        end == SetMin(ends)
    IN  IF m1 = p \/ answers = {} THEN None
        ELSE IF ends = {} THEN None
        ELSE Some([question |-> Slice(content, p, m1) \o << " " >> \o Strip(Slice(content, m1, a)),
                   answer |-> Slice(content, a, m3) \o << " " >> \o Strip(Slice(content, m3, end)),
                   start_pos |-> p, end_pos |-> end])

\* re.finditer(qa_pattern, content, re.IGNORECASE | re.DOTALL) from offset
\* from on: the leftmost match, then the leftmost one after its end.
RECURSIVE QaMatches(_, _, _)
QaMatchesWith(content, low, first) ==
    IF first = None THEN << >> ELSE first \o QaMatches(content, low, first[1].end_pos)

\* The leftmost match among those that start at the offsets hits, if any.
QaLeftmost(content, low, hits) ==
    IF hits = {} THEN None ELSE QaMatchAt(content, low, SetMin(hits))

QaMatches(content, low, from) ==
    QaMatchesWith(content, low,
                  QaLeftmost(content, low,
                             {p \in from..(Len(content) - 1) :
                                QaMatchAt(content, low, p) # None}))

\* FAQStrategy._extract_qa_pairs
extract_qa_pairs(content) == QaMatches(content, Lower(content), 0)

\* The matches of question_pattern, r'^\d+\.\s*(.+\?)' under re.MULTILINE:
\* digits and a dot at a line start, whitespace, and the line that the
\* whitespace reaches up to its last '?', which at least one character
\* precedes.  When that '?' is the first character the whitespace reaches,
\* \s* gives back a character that is not a newline.
QuestionMatches(content) ==
    LET n == Len(content)
        DigitCount(p) == LeadingCount(content, p, IsDigit)
        Dot(p) == p + DigitCount(p)
        Reached(p) == Dot(p) + 1 + LeadingCount(content, Dot(p) + 1, IsSpace)
        Marks(p) == {j \in Reached(p)..(LineEnd(content, Reached(p)) - 1) : content[j + 1] = "?"}
        GivesBack(p) == Reached(p) > Dot(p) + 1 /\ content[Reached(p)] # "\n"
        Matches(p) == /\ DigitCount(p) >= 1
                      /\ Dot(p) < n /\ content[Dot(p) + 1] = "."
                      /\ Marks(p) # {}
                      /\ SetMax(Marks(p)) > Reached(p) \/ GivesBack(p)
    IN  { << p, SetMax(Marks(p)) + 1 >> : p \in {q \in LineStarts(content) : q < n /\ Matches(q)} }

\* FAQStrategy._extract_numbered_questions: the for loop from match i on.
RECURSIVE NumberedQuestionLoop(_, _, _)
NumberedQuestionLoop(content, question_matches, i) ==
    IF i > Len(question_matches) THEN << >>
    ELSE LET match == question_matches[i]
             answer_end == IF i < Len(question_matches) THEN question_matches[i + 1][1]
                           ELSE Len(content)
             answer == Strip(Slice(content, match[2], answer_end))
             pair == [question |-> Slice(content, match[1], match[2]), answer |-> answer,
                      start_pos |-> match[1], end_pos |-> answer_end]
         IN  (IF answer # << >> THEN << pair >> ELSE << >>)
             \o NumberedQuestionLoop(content, question_matches, i + 1)

extract_numbered_questions(content) ==
    NumberedQuestionLoop(content, TakeMatches(QuestionMatches(content), 0), 1)

\* str.endswith('?')
EndsWithQuestionMark(s) == s # << >> /\ s[Len(s)] = "?"

\* FAQStrategy._extract_question_mark_pairs: the paragraphs an answer is made
\* of, from paragraph j on, for j up to last.
RECURSIVE AnswerParts(_, _, _)
AnswerParts(paragraphs, j, last) ==
    IF j > last THEN << >>
    ELSE LET next_para == Strip(paragraphs[j])
         IN  IF next_para # << >> /\ ~EndsWithQuestionMark(next_para)
             THEN << next_para >> \o AnswerParts(paragraphs, j + 1, last)
             ELSE << >>

\* FAQStrategy._extract_question_mark_pairs: the for loop from paragraph i on.
RECURSIVE QuestionMarkLoop(_, _, _)
QuestionMarkLoop(content, paragraphs, i) ==
    IF i > Len(paragraphs) THEN << >>
    ELSE LET question == Strip(paragraphs[i])
             answer_parts == AnswerParts(paragraphs, i + 1, Min2(i + 2, Len(paragraphs)))
             answer == Join(answer_parts, << "\n", "\n" >>)
             question_pos == Find(content, question, 0)
             answer_end == question_pos + Len(question) + Len(answer) + 10
             pair == [question |-> question, answer |-> answer, start_pos |-> question_pos,
                      end_pos |-> Min2(answer_end, Len(content))]
         IN  (IF EndsWithQuestionMark(question) /\ answer_parts # << >>
              THEN << pair >> ELSE << >>)
             \o QuestionMarkLoop(content, paragraphs, i + 1)

extract_question_mark_pairs(content) ==
    QuestionMarkLoop(content, SplitParagraphs(content), 1)

\* re.sub(r'^(Q:|Question:|Pergunta:)\s*', '', question).strip(): this
\* pattern is matched with the case of its letters.
question_clean(question) ==
    LET prefixes == {pre \in {Chars("Q:"), Chars("Question:"), Chars("Pergunta:")} :
                       StartsWith(question, pre)}
    IN  IF prefixes = {} THEN Strip(question)
        ELSE Strip(Slice(question, Len(CHOOSE pre \in prefixes : TRUE), Len(question)))

\* re.search(r'\b(word)\b', s, re.IGNORECASE) for a word that starts and ends
\* with a word character; low is s in lower case.
HasWord(low, word) ==
    \E k \in 0..(Len(low) - Len(word)) :
        /\ Slice(low, k, k + Len(word)) = word
        /\ k = 0 \/ ~IsWordChar(low[k])
        /\ k + Len(word) = Len(low) \/ ~IsWordChar(low[k + Len(word) + 1])

\* FAQStrategy._analyze_qa_pair: the question type.
HasEither(low, a, b) == HasWord(low, Chars(a)) \/ HasWord(low, Chars(b))

\* The if/elif chain of _analyze_qa_pair over question_lower.
QuestionTypeOf(low) ==
    IF HasEither(low, "what", "o que") THEN "definition"
    ELSE IF HasEither(low, "how", "como") THEN "procedure"
    ELSE IF HasEither(low, "why", "por que") THEN "explanation"
    ELSE IF HasEither(low, "when", "quando") THEN "timing"
    ELSE IF HasEither(low, "where", "onde") THEN "location"
    ELSE "general"

question_type(question) == QuestionTypeOf(Lower(question_clean(question)))

\* FAQStrategy.process: the for loop over the pairs from pair i on.
RECURSIVE FaqLoop(_, _, _)
FaqLoopStep(pair, qa_text, result) ==
    IF Len(qa_text) < 50
    THEN [result EXCEPT !.dropped = Append(@, << pair.start_pos, pair.end_pos >>)]
    ELSE [result EXCEPT !.chunks =
            Append(@, [text |-> qa_text, start_position |-> pair.start_pos,
                       end_position |-> pair.end_pos, chunk_index |-> Len(result.chunks),
                       chunking_method |-> "qa-pairs", strategy |-> "faq/qa-pairs",
                       question_type |-> question_type(pair.question)])]

FaqLoop(qa_pairs, i, result) ==
    IF i > Len(qa_pairs) THEN result
    ELSE FaqLoop(qa_pairs, i + 1,
                 FaqLoopStep(qa_pairs[i],
                             Strip(qa_pairs[i].question \o << "\n", "\n" >>
                                   \o qa_pairs[i].answer),
                             result))

\* FAQStrategy._extract_qa_pairs_from_content after the numbered questions:
\* they are the pairs unless there is none.
NumberedOrQuestionMarkPairs(content, numbered) ==
    IF numbered # << >> THEN numbered ELSE extract_question_mark_pairs(content)

\* FAQStrategy._extract_qa_pairs_from_content after the explicit pairs: they
\* are the pairs unless there is none.
ExplicitOrOtherPairs(content, explicit) ==
    IF explicit # << >> THEN explicit
    ELSE NumberedOrQuestionMarkPairs(content, extract_numbered_questions(content))

\* FAQStrategy.process from the pairs on.
FaqWithPairs(content, qa_pairs) ==
    IF qa_pairs = << >> THEN SizeFallback(content, 800, FAQ_CHUNK_OVERLAP)
    ELSE FaqLoop(qa_pairs, 1, StrategyResult("ok", << >>, << >>))

\* FAQStrategy.process
faq_process(content) ==
    FaqWithPairs(content, ExplicitOrOtherPairs(content, extract_qa_pairs(content)))

\* The strategies whose process the model computes.
ChunkingStrategies ==
    StructuredNames \cup { "products/semantic-boundary", "article/sentence-based",
                           "legal/paragraph-based", "faq/qa-pairs" }

\* strategy.process(content, directive, client_config) for the strategy
\* registered under name; none of these reads the directive, and the default
\* client configuration has no validate_product_completeness.
StrategyProcess(name, content) ==
    CASE name = "products/semantic-boundary" -> products_process(content)
      [] name = "article/sentence-based" -> article_process(content)
      [] name = "legal/paragraph-based" -> legal_process(content)
      [] name = "faq/qa-pairs" -> faq_process(content)
      [] name \in StructuredNames -> structured_process(separator_type(name), content)

(***************************************************************************)
(* ManualStrategy (strategies/manual.py) for bodies with Markdown          *)
(* headers.  The alternative header styles process tries when the body has *)
(* no Markdown header are not modelled: process then gives the status      *)
(* "unmodelled".  Of the section metadata the title, the level and the     *)
(* parent are kept.                                                        *)
(***************************************************************************)

MANUAL_CHUNK_OVERLAP == 150

\* A section shorter than this is skipped.
MinSectionLength == 100

IsHashChar(c) == c = "#"

\* len(header_text) - len(header_text.lstrip('#')) for the header matched at
\* the span match of body.
HeaderLevel(body, match) == LeadingCount(body, match[1], IsHashChar)

\* header_match.group(1).strip(): the line after the '#' characters.
HeaderTitle(body, match) ==
    Strip(Slice(body, match[1] + HeaderLevel(body, match), match[2]))

\* The last of the parent headers, if there is one.
LastParent(before_section, parent_matches) ==
    IF parent_matches = << >> THEN None
    ELSE Some(HeaderTitle(before_section, parent_matches[Len(parent_matches)]))

\* ManualStrategy._analyze_section, metadata["parent"]: the title of the last
\* match of r'^#{level - 1}\s+(.+)$' in the text before the header; None when
\* the key is not set.
ParentOf(before_section, level) ==
    IF level > 1
    THEN LastParent(before_section,
                    TakeMatches({ m \in HeadingMatches(before_section) :
                                    HeaderLevel(before_section, m) = level - 1 }, 0))
    ELSE None

ManualChunk(text, start, end, index, title, level, parent) ==
    [text |-> text, start_position |-> start, end_position |-> end,
     chunk_index |-> index, chunking_method |-> "section-based",
     strategy |-> "manual/section-based", section_title |-> title,
     section_level |-> level, parent_section |-> parent]

\* The chunk of the section of header i, which runs to end_pos.
SectionChunk(body, header_matches, i, end_pos, index) ==
    LET start_pos == header_matches[i][1]
        overlap_start == IF MANUAL_CHUNK_OVERLAP > 0 /\ i > 1
                         THEN Max2(0, start_pos - MANUAL_CHUNK_OVERLAP)
                         ELSE start_pos
    IN  ManualChunk(Slice(body, overlap_start, start_pos)
                        \o Strip(Slice(body, start_pos, end_pos)),
                    overlap_start, end_pos, index,
                    HeaderTitle(body, header_matches[i]),
                    HeaderLevel(body, header_matches[i]),
                    ParentOf(Slice(body, 0, start_pos),
                             HeaderLevel(body, header_matches[i])))

\* Where the section of header i ends: at the next header, or at the end.
SectionEnd(body, header_matches, i) ==
    IF i < Len(header_matches) THEN header_matches[i + 1][1] ELSE Len(body)

\* Whether the section of header i is long enough to be analysed.
SectionKept(body, header_matches, i) ==
    Len(Strip(Slice(body, header_matches[i][1],
                    SectionEnd(body, header_matches, i)))) >= MinSectionLength

\* _analyze_section compiles r'^#{level + 1,6}\s+' to count the subsections:
\* for a header of level 6 the repeat {7,6} is not a pattern and re.findall
\* raises re.error.
AnalyzeSectionRaises(body, header_matches) ==
    \E i \in 1..Len(header_matches) :
        /\ SectionKept(body, header_matches, i)
        /\ HeaderLevel(body, header_matches[i]) + 1 > 6

\* ManualStrategy.process: the for loop over the headers from header i on.
RECURSIVE ManualLoop(_, _, _, _)
ManualLoop(body, header_matches, i, chunks) ==
    IF i > Len(header_matches) THEN chunks
    ELSE IF ~SectionKept(body, header_matches, i)
    THEN ManualLoop(body, header_matches, i + 1, chunks)
    ELSE ManualLoop(body, header_matches, i + 1,
                    Append(chunks, SectionChunk(body, header_matches, i,
                                                SectionEnd(body, header_matches, i),
                                                Len(chunks))))

ManualWithHeaders(body, header_matches) ==
    IF header_matches = << >>
    THEN StrategyResult("unmodelled", << >>, << >>)
    ELSE IF AnalyzeSectionRaises(body, header_matches)
    THEN StrategyResult("raised", << >>, << >>)
    ELSE StrategyResult("ok", ManualLoop(body, header_matches, 1, << >>), << >>)

\* ManualStrategy.process
manual_process(body) ==
    ManualWithHeaders(body, TakeMatches(HeadingMatches(body), 0))

(***************************************************************************)
(* ValidationEngine (core/validator.py) with the default client            *)
(* configuration.  An issue is its level and the fixed part of its         *)
(* message.  Quality factors are kept in units of 1/5000 and the quality   *)
(* score in units of 1/50000, so that length / 5000, the other factors and *)
(* the weights 0.2 and 0.3 are all whole numbers.                          *)
(***************************************************************************)

MINIMUM_DOCUMENT_LENGTH == 100

\* The quality score 1.0 in the model's units.
ScoreOne == 50000

\* [ValidationIssue(level, message)] if cond else []
IssueIf(cond, level, message) ==
    IF cond THEN << [level |-> level, message |-> message] >> ELSE << >>

\* len([issue for issue in issues if issue.level == ValidationLevel.ERROR])
ErrorCount(issues) == Cardinality({i \in 1..Len(issues) : issues[i].level = "error"})

\* A validation status in which at most one error still counts as valid.
IsValidUpToOneError(issues) == ErrorCount(issues) <= 1

\* is_valid = error_count == 0
IsValid(issues) == ErrorCount(issues) = 0

\* ValidationEngine._validate_basic_requirements
validate_basic_requirements(content) ==
    LET lines == SplitOn(content, "\n")
        short_lines == {i \in 1..Len(lines) :
                           0 < Len(Strip(lines[i])) /\ Len(Strip(lines[i])) < 10}
    IN  IssueIf(Len(content) < MINIMUM_DOCUMENT_LENGTH, "error",
                "Document must be at least 100 characters")
        \o IssueIf(Strip(content) = << >>, "error",
                   "Document is empty or contains only whitespace")
        \o IssueIf(10 * Cardinality(short_lines) > 3 * Len(lines), "warning",
                   "Many very short lines detected - possible formatting issues")

\* ValidationEngine._validate_encoding.  The text of the model is made of
\* characters that encode to UTF-8, so the UnicodeError branch is not taken.
validate_encoding(content) ==
    LET encoding_artifacts == << "U+FFFD", "U+00A0", "U+2019" >>
        Found(n) == IssueIf(\E i \in 1..Len(content) : content[i] = encoding_artifacts[n],
                            "warning", "Encoding artifact detected")
    IN  Found(1) \o Found(2) \o Found(3)

\* re.findall of an OCR pattern \b[c]\s[c]\s[c]\b for a class of word characters
ScatteredMatches(content, InClass(_)) ==
    LET n == Len(content)
        starts == {i \in 1..(n - 4) :
                     /\ InClass(content[i]) /\ IsSpace(content[i + 1])
                     /\ InClass(content[i + 2]) /\ IsSpace(content[i + 3])
                     /\ InClass(content[i + 4])
                     /\ i = 1 \/ ~IsWordChar(content[i - 1])
                     /\ i + 4 = n \/ ~IsWordChar(content[i + 5])}
    IN  NonOverlapping(starts, 5, 1)

\* ValidationEngine._validate_structure
validate_structure(content) ==
    LET lines == SplitOn(content, "\n")
        very_long_lines == {i \in 1..Len(lines) : Len(lines[i]) > 500}
        paragraph_breaks == Cardinality(ParagraphBreaks(content))
        IsConfusable(c) == c \in {"I", "l", "1", "|"}
        confusable == {r \in Runs(content, IsConfusable) : r[2] - r[1] >= 3}
    IN  IssueIf(very_long_lines # {}, "warning", "very long lines detected (>500 chars)")
        \o IssueIf(paragraph_breaks = 0 /\ Len(content) > 1000, "warning",
                   "No paragraph breaks detected in long document")
        \o IssueIf(Cardinality(ScatteredMatches(content, IsLower)) > 5, "info",
                   "Possible OCR artifacts detected")
        \o IssueIf(Cardinality(ScatteredMatches(content, IsDigit)) > 5, "info",
                   "Possible OCR artifacts detected")
        \o IssueIf(Cardinality(confusable) > 5, "info", "Possible OCR artifacts detected")

\* DefaultConfig.get_required_fields(document_type): every known type, and
\* every other hashable value, has no required field.
get_required_fields(doc_type) == << >>

\* DefaultConfig.get_field_patterns(): the field names, in dictionary order.
field_patterns ==
    << Chars("title"), Chars("description"), Chars("url"),
       Chars("email"), Chars("phone"), Chars("date") >>

\* ClientConfig.validate_field_format(field_name, value):
\* bool(re.search(pattern, value, re.IGNORECASE)) for the field's pattern.
validate_field_format(field_name, value) ==
    LET n == Len(value)
        low == Lower(value)
        IsPhoneChar(c) == IsDigit(c) \/ IsSpace(c) \/ c \in {"-", "(", ")"}
        IsDateSep(c) == c \in {"/", "-"}
        Digits(a, b) == b <= n /\ \A i \in a..b : IsDigit(value[i])
    IN  CASE field_name = Chars("title") -> n >= 3
          [] field_name = Chars("description") -> n >= 10
          [] field_name = Chars("url") ->
                \E k \in 0..n, scheme \in {Chars("http://"), Chars("https://")} :
                    /\ Slice(low, k, k + Len(scheme)) = scheme
                    /\ k + Len(scheme) < n
                    /\ ~IsSpace(value[k + Len(scheme) + 1])
          [] field_name = Chars("email") ->
                \E at \in 2..n, dot \in 3..(n - 1) :
                    /\ value[at] = "@" /\ value[at - 1] # "@"
                    /\ dot > at + 1 /\ value[dot] = "."
                    /\ \A i \in (at + 1)..(dot + 1) : value[i] # "@"
          [] field_name = Chars("phone") ->
                \E r \in Runs(value, IsPhoneChar) : r[2] - r[1] >= 10
          [] field_name = Chars("date") ->
                \E i \in 1..n, a \in 1..2, b \in 1..2 :
                    /\ Digits(i, i + a - 1)
                    /\ i + a <= n /\ IsDateSep(value[i + a])
                    /\ Digits(i + a + 1, i + a + b)
                    /\ i + a + b + 1 <= n /\ IsDateSep(value[i + a + b + 1])
                    /\ Digits(i + a + b + 2, i + a + b + 3)
          [] OTHER -> TRUE

\* re.finditer(re.escape(field_name) + r':\s*([^\n]+)', content, re.IGNORECASE)
\* from offset from on: the stripped group 1 of every match, in order.
RECURSIVE FieldValues(_, _, _)
FieldValues(content, field_name, from) ==
    LET k == Find(Lower(content), field_name \o << ":" >>, from)
        tail == Slice(content, k, Len(content))
        m == MatchDirective(SubSeq(tail, 1, Len(field_name) + 1), tail)
        next_line == Find(content, << "\n" >>, k + Len(field_name) + 1 + LStripCount(
                         Slice(content, k + Len(field_name) + 1, Len(content))))
    IN  IF k < 0 THEN << >>
        ELSE IF m = None THEN FieldValues(content, field_name, k + 1)
        ELSE << Strip(m[1]) >> \o
             (IF next_line < 0 THEN << >> ELSE FieldValues(content, field_name, next_line))

\* The values of the n-th field pattern's field that do not have its format.
BadFormats(content, n) ==
    SelectSeq(FieldValues(content, field_patterns[n], 0),
              LAMBDA value : ~validate_field_format(field_patterns[n], value))

\* What _validate_client_rules gives back: whether it raised, and its issues
\* for the required fields that are missing and the values of a bad format.
ClientRulesResult(raised, too_short, missing, bad_formats) ==
    [raised |-> raised,
     issues |->
        IssueIf(too_short, "error", "Content too short for default")
        \o [i \in 1..Len(missing) |->
               [level |-> "error", message |-> "Required field missing"]]
        \o [i \in 1..Len(bad_formats) |->
               [level |-> "warning",
                message |-> "Field format doesn't match expected pattern"]]]

\* ValidationEngine._validate_client_rules for the default configuration, which
\* has no validate_product_completeness.  raised is TRUE when the metadata
\* lookups raise TypeError: a membership test on a number or boolean, a
\* string index on a string or list, an unhashable document type.
validate_client_rules(content, directive) ==
    LET metadata == directive.metadata
        min_length == 100
        has_type ==
            CASE ~Truthy(metadata) -> FALSE
              [] metadata.kind = "str" -> Contains(metadata.val, Chars("type"))
              [] metadata.kind = "arr" ->
                    \E i \in 1..Len(metadata.val) :
                        /\ metadata.val[i].kind = "str"
                        /\ metadata.val[i].val = Chars("type")
              [] metadata.kind = "obj" -> KeyIndex(metadata.val, Chars("type")) # 0
              [] OTHER -> FALSE
        doc_type == metadata.val[KeyIndex(metadata.val, Chars("type"))][2]
        raised ==
            /\ Truthy(metadata)
            /\ \/ metadata.kind \in {"num", "bool"}
               \/ has_type /\ metadata.kind \in {"str", "arr"}
               \/ has_type /\ metadata.kind = "obj" /\ doc_type.kind \in {"arr", "obj"}
        required_fields == IF has_type /\ ~raised THEN get_required_fields(doc_type) ELSE << >>
        missing == SelectSeq(required_fields, LAMBDA field : ~Contains(content, field))
    IN  ClientRulesResult(raised, Len(content) < min_length, missing,
                          BadFormats(content, 1) \o BadFormats(content, 2)
                          \o BadFormats(content, 3) \o BadFormats(content, 4)
                          \o BadFormats(content, 5) \o BadFormats(content, 6))

\* ValidationEngine._validate_directive
validate_directive(directive) ==
    LET metadata == directive.metadata
        Missing(field) ==
            IssueIf(Truthy(metadata) /\ metadata.kind = "obj"
                       /\ KeyIndex(metadata.val, Chars(field)) = 0,
                    "info", "Recommended metadata field missing")
    IN  IssueIf(TruthyStr(directive.strategy) /\ ~Contains(directive.strategy[1], << "/" >>),
                "error", "Strategy must be in format 'category/method'")
        \o IssueIf(/\ TruthyStr(directive.source_url)
                   /\ ~StartsWith(directive.source_url[1], Chars("http://"))
                   /\ ~StartsWith(directive.source_url[1], Chars("https://")),
                   "warning", "Source URL should be a valid HTTP/HTTPS URL")
        \o IssueIf(Truthy(metadata) /\ metadata.kind # "obj",
                   "error", "Metadata must be a JSON object")
        \o Missing("type") \o Missing("version")

\* quality_factors["length"] of _assess_content_quality, in units of 1/5000:
\* 0.3 under 500 characters, 0.9 over 10000, min(0.8, length / 5000) between.
LengthFactor(length) ==
    IF length < 500 THEN 1500
    ELSE IF length > 10000 THEN 4500
    ELSE Min2(4000, length)

\* What _assess_content_quality gives back: its issues and the quality score.
QualityResult(quality) ==
    [status |-> "ok", issues |-> quality.issues, score |-> quality.score]

\* ValidationEngine._assess_content_quality; strategy_issues is how many issues
\* strategy.validate_content(content, ProcessingDirective()) returns.
assess_content_quality(content, strategy_issues) ==
    LET length == Len(content)
        paragraph_count == Cardinality(ParagraphBreaks(content)) + 1
        IsTerminator(c) == c \in {".", "!", "?"}
        IsNotSpace(c) == ~IsSpace(c)
        sentence_count == Cardinality(Runs(content, IsTerminator))
        word_count == Cardinality(Runs(content, IsNotSpace))
        length_factor == LengthFactor(length)
        structure_factor == IF paragraph_count < 3 THEN 2000
                            ELSE IF paragraph_count > 20 THEN 4500
                            ELSE Min2(4000, 500 * paragraph_count)
        \* avg_sentence_length = word_count / sentence_count
        language_factor ==
            IF sentence_count = 0 THEN 1000
            ELSE IF 10 * sentence_count <= word_count /\ word_count <= 30 * sentence_count
                 THEN 4000
            ELSE IF 5 * sentence_count <= word_count /\ word_count <= 50 * sentence_count
                 THEN 3000
            ELSE 2000
        strategy_fit == IF strategy_issues = 0 THEN 4500
                        ELSE IF strategy_issues <= 2 THEN 3500
                        ELSE 2000
        quality_score == 2 * length_factor + 3 * structure_factor
                         + 2 * language_factor + 3 * strategy_fit
    IN  [score |-> quality_score,
         issues |->
            IssueIf(length < 500, "info",
                    "Content is quite short - may limit chunking effectiveness")
            \o IssueIf(sentence_count > 0 /\ language_factor = 2000, "info",
                       "Average sentence length unusual")
            \* 0.35 * 0.2 + 0.3 * 0.3 + 0.6 * 0.2 + 0.4 * 0.3 is the one sum of factors
            \* that binary floating point rounds to below 0.4
            \o IssueIf(\/ 5 * quality_score < 2 * ScoreOne
                       \/ /\ length_factor = 1750 /\ structure_factor = 1500
                          /\ language_factor = 3000 /\ strategy_fit = 2000,
                       "warning", "Low content quality score")
            \o IssueIf(5 * quality_score > 4 * ScoreOne, "info",
                       "High quality content detected")]

\* What a validation call gives back: a ValidationResult, or an exception.
ValidationResult(status, is_valid, issues, score) ==
    [status |-> status, is_valid |-> is_valid, issues |-> issues, score |-> score]

\* ValidationEngine.validate(content, strategy, client_config, directive) for
\* a strategy whose validate_content returns strategy_issues issues.  No
\* registered strategy's validate_content reads the directive, so the call
\* with the document's directive and the call with an empty directive of
\* _assess_content_quality return the same issues.
ValidationOf(issues, score) == ValidationResult("ok", IsValid(issues), issues, score)

ValidateWith(content, directive, strategy_issues, client, quality) ==
    IF client.raised THEN ValidationResult("raised", FALSE, << >>, 0)
    ELSE ValidationOf(validate_basic_requirements(content)
                      \o validate_encoding(content)
                      \o validate_structure(content)
                      \o [i \in 1..strategy_issues |->
                             [level |-> "warning", message |-> "strategy_validation"]]
                      \o client.issues
                      \o validate_directive(directive)
                      \o quality.issues,
                      quality.score)

validate(content, directive, strategy_issues) ==
    ValidateWith(content, directive, strategy_issues,
                 validate_client_rules(content, directive),
                 assess_content_quality(content, strategy_issues))

\* ValidationEngine.validate_directive_only(directive)
DirectiveValidationOf(issues) ==
    ValidationResult("ok", IsValid(issues), issues,
                     IF IsValid(issues) THEN ScoreOne ELSE ScoreOne \div 2)

validate_directive_only(directive) == DirectiveValidationOf(validate_directive(directive))

(***************************************************************************)
(* DocumentAnalyzer (core/analyzer.py).  A detection pattern is the        *)
(* sequence of its alternatives and an alternative the sequence of its     *)
(* items: a line anchor, or a character class with the least and the most  *)
(* repetitions it takes (max -1: no limit).  _calculate_type_score matches *)
(* every pattern under re.MULTILINE | re.IGNORECASE.                       *)
(***************************************************************************)

\* Whether character c, in lower case, is in the class with that name.
ClassHas(cls, c) ==
    CASE cls = "space" -> IsSpace(c)
      [] cls = "digit" -> IsDigit(c)
      [] cls = "word" -> IsWordChar(c)
      [] cls = "letter" -> IsLetter(c)
      [] cls = "letter_or_space" -> IsLetter(c) \/ IsSpace(c)
      [] cls = "not_newline" -> c # "\n"
      [] cls = "sentence_end" -> c \in {".", "!", "?"}
      [] cls = "not_sentence_end" -> c \notin {".", "!", "?"}

\* Pattern items: a character (in lower case) taken once, at most once or a
\* number of times, a class taken once or with a greedy or a lazy quantifier,
\* the anchors ^ and $; below, a literal text and a repeated group.
Lit(c) == [kind |-> "lit", arg |-> c, min |-> 1, max |-> 1, lazy |-> FALSE]

Opt(c) == [kind |-> "lit", arg |-> c, min |-> 0, max |-> 1, lazy |-> FALSE]

One(cls) == [kind |-> "class", arg |-> cls, min |-> 1, max |-> 1, lazy |-> FALSE]

Star(cls) == [kind |-> "class", arg |-> cls, min |-> 0, max |-> -1, lazy |-> FALSE]

Plus(cls) == [kind |-> "class", arg |-> cls, min |-> 1, max |-> -1, lazy |-> FALSE]

LazyStar(cls) == [kind |-> "class", arg |-> cls, min |-> 0, max |-> -1, lazy |-> TRUE]

Between(c, least, most) == [kind |-> "lit", arg |-> c, min |-> least, max |-> most, lazy |-> FALSE]

LineStart == [kind |-> "bol"]

LineEndAnchor == [kind |-> "eol"]

\* The item of a literal text, given as characters (in lower case) or as a
\* string.
Lits(chars) == << [kind |-> "text", arg |-> chars] >>

Word(s) == Lits(Chars(s))

\* A group of items repeated at least so many times, greedily: (?:...){n,}
Repeat(items, least) == [kind |-> "repeat", items |-> items, min |-> least]

\* Whether the item takes character c of the text, given in lower case.
ItemTakes(item, c) == IF item.kind = "lit" THEN c = item.arg ELSE ClassHas(item.arg, c)

\* How many characters from offset pos on the item can take when it has no
\* limit, found a stretch of the text at a time.
RECURSIVE FreeRunLength(_, _, _)
FreeRunLength(low, pos, item) ==
    LET reach == Min2(pos + 16, Len(low))
        stop == {i \in (pos + 1)..reach : ~ItemTakes(item, low[i])}
    IN  IF stop # {} THEN SetMin(stop) - 1 - pos
        ELSE IF reach = Len(low) THEN reach - pos
        ELSE (reach - pos) + FreeRunLength(low, reach, item)

\* How many characters from offset pos on the item can take.
RunLength(low, pos, item) ==
    IF item.max < 0 THEN FreeRunLength(low, pos, item)
    ELSE Cardinality({k \in 1..Min2(item.max, Len(low) - pos) :
                        \A i \in (pos + 1)..(pos + k) : ItemTakes(item, low[i])})

\* Where the match of the items ends when it starts at offset pos of the
\* text low (in lower case), or -1 when they do not match there.  A greedy
\* item takes the most characters with which the rest still matches, a lazy
\* one the fewest; a repeated group first tries one more repetition.
RECURSIVE MatchItems(_, _, _)
MatchItems(low, pos, items) ==
    IF items = << >> THEN pos
    ELSE LET item == Head(items)
             rest == Tail(items)
         IN  IF item.kind = "bol"
             THEN IF pos = 0 \/ low[pos] = "\n" THEN MatchItems(low, pos, rest) ELSE -1
             ELSE IF item.kind = "eol"
             THEN IF pos = Len(low) \/ low[pos + 1] = "\n" THEN MatchItems(low, pos, rest)
                  ELSE -1
             ELSE IF item.kind = "text"
             THEN IF Slice(low, pos, pos + Len(item.arg)) = item.arg
                  THEN MatchItems(low, pos + Len(item.arg), rest)
                  ELSE -1
             ELSE IF item.kind = "repeat"
             THEN LET again == MatchItems(low, pos,
                                          item.items
                                          \o << Repeat(item.items, Max2(item.min - 1, 0)) >>
                                          \o rest)
                  IN  IF again >= 0 THEN again
                      ELSE IF item.min = 0 THEN MatchItems(low, pos, rest)
                      ELSE -1
             ELSE LET most == RunLength(low, pos, item)
                      counts == {k \in item.min..most : MatchItems(low, pos + k, rest) >= 0}
                  IN  IF most < item.min THEN -1
                      ELSE IF most = item.min THEN MatchItems(low, pos + most, rest)
                      ELSE IF counts = {} THEN -1
                      ELSE MatchItems(low, pos + (IF item.lazy THEN SetMin(counts)
                                                  ELSE SetMax(counts)), rest)

\* Where the match of a pattern ends when it starts at offset pos: that of
\* the first of its alternatives from number a on that matches there, or -1.
RECURSIVE MatchAt(_, _, _, _)
MatchAt(low, pos, pattern, a) ==
    IF a > Len(pattern) THEN -1
    ELSE LET end == MatchItems(low, pos, pattern[a])
         IN  IF end >= 0 THEN end ELSE MatchAt(low, pos, pattern, a + 1)

\* Whether the first item of an alternative lets it match at offset pos.
CanStartAt(low, pos, alternative) ==
    LET item == alternative[1]
    IN  CASE item.kind = "bol" -> pos = 0 \/ low[pos] = "\n"
          [] item.kind = "text" -> pos < Len(low) /\ low[pos + 1] = item.arg[1]
          [] item.kind = "lit" /\ item.min > 0 -> pos < Len(low) /\ low[pos + 1] = item.arg
          [] OTHER -> TRUE

\* len(re.findall(pattern, content, re.MULTILINE | re.IGNORECASE)): the
\* matches are looked for at the offsets where an alternative can start.
CountMatches(low, pattern) ==
    LET candidates == {q \in 0..Len(low) :
                         \E a \in 1..Len(pattern) : CanStartAt(low, q, pattern[a])}
    IN  Len(TakeMatches({ << p, MatchAt(low, p, pattern, 1) >> :
                            p \in {q \in candidates : MatchAt(low, q, pattern, 1) >= 0} }, 0))

\* r'<field>:\s*([^\n]*)' for a field name given as characters.
FieldPattern(field) == Lits(field \o << ":" >>) \o << Star("space"), Star("not_newline") >>

\* r'^<field>:\s*([^\n]*)'
LineFieldPattern(field) == << LineStart >> \o FieldPattern(Chars(field))

\* r'<first>\s+<second>' for two literal texts
SpacedWords(first, second) == Word(first) \o << Plus("space") >> \o Word(second)

\* r'<word>\s+\d+' and r'<word>\s+\w+'
WordNumber(word) == Lits(word) \o << Plus("space"), Plus("digit") >>

WordName(word) == Word(word) \o << Plus("space"), Plus("word") >>

\* self.detection_patterns: for each document type, in the order of the
\* dictionary, its patterns with their weights in tenths.  A backquote is
\* written as its code point.
detection_patterns ==
    << [type |-> "structured_blocks",
        patterns |-> <<
          [weight |-> 40, pattern |-> << << Lit("\n"), Star("space"), Lit("\n") >> >>],
          [weight |-> 35, pattern |-> << << LineStart, One("letter"), LazyStar("letter_or_space"),
                                            Lit(":"), Star("space"), Star("not_newline"),
                                            LineEndAnchor >> >>],
          [weight |-> 30, pattern |-> << LineFieldPattern("name"), LineFieldPattern("title"),
                                         LineFieldPattern("item") >>],
          [weight |-> 25, pattern |-> << LineFieldPattern("description"),
                                         << LineStart >> \o Word("detail") \o << Opt("s") >>
                                            \o FieldPattern(<< >>) >>],
          [weight |-> 25, pattern |-> << LineFieldPattern("price"), LineFieldPattern("cost"),
                                         LineFieldPattern("value") >>],
          [weight |-> 20, pattern |-> << LineFieldPattern("category"), LineFieldPattern("type"),
                                         LineFieldPattern("class") >>],
          [weight |-> 50, pattern |-> << << Repeat(<< Lit("\n"), Star("space"), Lit("\n"),
                                                      LazyStar("not_newline") >>, 3) >> >>] >>],
       [type |-> "product_catalog",
        patterns |-> <<
          [weight |-> 30, pattern |-> << FieldPattern(Chars("name")) >>],
          [weight |-> 25, pattern |-> << FieldPattern(Chars("description")) >>],
          [weight |-> 25, pattern |-> << FieldPattern(Chars("price")) >>],
          [weight |-> 15, pattern |-> << FieldPattern(Chars("category")) >>],
          [weight |-> 15, pattern |-> << FieldPattern(Chars("brand")) >>],
          [weight |-> 15, pattern |-> << FieldPattern(Chars("sku")) >>],
          [weight |-> 20, pattern |-> << FieldPattern(Chars("product")) >>],
          [weight |-> 18, pattern |-> << FieldPattern(Chars("item")) >>],
          [weight |-> 15, pattern |-> << FieldPattern(Chars("nome")) >>],
          [weight |-> 12, pattern |-> << FieldPattern(Chars("descri") \o << "U+00E7", "U+00E3" >>
                                                      \o Chars("o")) >>],
          [weight |-> 12, pattern |-> << FieldPattern(Chars("pre") \o << "U+00E7" >>
                                                      \o Chars("o")) >>] >>],
       [type |-> "user_manual",
        patterns |-> <<
          [weight |-> 20, pattern |-> << << LineStart, Between("#", 1, 6), Plus("space") >> >>],
          [weight |-> 15, pattern |-> << << LineStart, Plus("digit"), Lit("."), Plus("space") >> >>],
          [weight |-> 25, pattern |-> << WordNumber(Chars("chapter")) >>],
          [weight |-> 20, pattern |-> << WordNumber(Chars("section")) >>],
          [weight |-> 20, pattern |-> << << LineStart, Plus("digit"), Lit("."), Plus("digit"),
                                            Plus("space") >> >>],
          [weight |-> 15, pattern |-> << WordNumber(Chars("step")) >>],
          [weight |-> 18, pattern |-> << Word("instruction") \o << Opt("s"), Lit(":") >> >>],
          [weight |-> 15, pattern |-> << SpacedWords("how", "to") \o << Plus("space") >> >>] >>],
       [type |-> "faq",
        patterns |-> <<
          [weight |-> 30, pattern |-> << Word("q:"), Word("question:"), Word("pergunta:") >>],
          [weight |-> 30, pattern |-> << Word("a:"), Word("answer:"), Word("resposta:") >>],
          [weight |-> 25, pattern |-> << << LineStart, Plus("digit"), Lit("."), Star("space"),
                                            Plus("not_newline"), Lit("?") >> >>],
          [weight |-> 20, pattern |-> << Word("faq"), Word("f.a.q.") >>],
          [weight |-> 15, pattern |-> << << Lit("?"), Star("space"), LineEndAnchor >> >>],
          [weight |-> 20, pattern |-> << SpacedWords("frequently", "asked") >>] >>],
       [type |-> "article",
        patterns |-> <<
          [weight |-> 10, pattern |-> << << LineStart, One("letter"), Star("not_sentence_end"),
                                            One("sentence_end"), Star("space"),
                                            LineEndAnchor >> >>],
          [weight |-> 12, pattern |-> << Word("paragraph"),
                                         Lits(Chars("par") \o << "U+00E1" >> \o Chars("grafo")) >>],
          [weight |-> 15, pattern |-> << Word("introduction"),
                                         Lits(Chars("introdu") \o << "U+00E7", "U+00E3" >>
                                              \o Chars("o")) >>],
          [weight |-> 15, pattern |-> << Word("conclusion"),
                                         Lits(Chars("conclus") \o << "U+00E3" >> \o Chars("o")) >>],
          [weight |-> 10, pattern |-> << SpacedWords("por", "exemplo") >>],
          [weight |-> 10, pattern |-> << SpacedWords("for", "example") >>],
          [weight |-> 12, pattern |-> << Word("therefore"), Word("therefore,") >>] >>],
       [type |-> "legal_document",
        patterns |-> <<
          [weight |-> 25, pattern |-> << WordNumber(Chars("article")), WordNumber(Chars("artigo")) >>],
          [weight |-> 20, pattern |-> << WordNumber(Chars("section")),
                                         WordNumber(Chars("se") \o << "U+00E7", "U+00E3" >>
                                                    \o Chars("o")) >>],
          [weight |-> 20, pattern |-> << Word("whereas"), Word("considerando") >>],
          [weight |-> 20, pattern |-> << Word("hereby"), SpacedWords("pelo", "presente") >>],
          [weight |-> 25, pattern |-> << SpacedWords("terms", "and") \o << Plus("space") >>
                                            \o Word("conditions") >>],
          [weight |-> 25, pattern |-> << SpacedWords("privacy", "policy") >>],
          [weight |-> 20, pattern |-> << Word("agreement"), Word("acordo") >>],
          [weight |-> 20, pattern |-> << Word("contract"), Word("contrato") >>] >>],
       [type |-> "code_documentation",
        patterns |-> <<
          [weight |-> 25, pattern |-> << WordName("def") \o << Lit("(") >> >>],
          [weight |-> 25, pattern |-> << WordName("function") \o << Lit("(") >> >>],
          [weight |-> 20, pattern |-> << WordName("class") >>],
          [weight |-> 20, pattern |-> << Word("api"), Word("api") >>],
          [weight |-> 20, pattern |-> << Lits(<< "U+0060", "U+0060", "U+0060" >>)
                                            \o << Star("word"), Lit("\n") >> >>],
          [weight |-> 20, pattern |-> << Word("@param"), Word("@return") >>],
          [weight |-> 15, pattern |-> << WordName("import") >>],
          [weight |-> 15, pattern |-> << Word("##") \o << Plus("space"), One("letter") >> >>] >>] >>

\* min(count * PATTERN_FREQUENCY_MULTIPLIER, 5.0) in halves: the multiplier is
\* 1.5.
FrequencyBoost(count) == Min2(3 * count, 10)

\* DocumentAnalyzer._calculate_type_score: total_score in twentieths.  low is
\* the content in lower case.
calculate_type_score(low, patterns) ==
    LET total_score[n \in 0..Len(patterns)] ==
            IF n = 0 THEN 0
            ELSE total_score[n - 1]
                 + patterns[n].weight * FrequencyBoost(CountMatches(low, patterns[n].pattern))
    IN  total_score[Len(patterns)]

\* round(num / den, 3) in thousandths.  The quotient is a float: when it lies
\* halfway between two thousandths, its representation error decides which
\* of the two round returns, so both are possible results.
RoundedThousandths(num, den) ==
    LET q == (1000 * num) \div den
        r == (1000 * num) % den
    IN  IF 2 * r < den THEN {q}
        ELSE IF 2 * r > den THEN {q + 1}
        ELSE {q, q + 1}

\* _normalize_confidence without min(confidence, 0.95).
normalize_confidence_uncapped(raw_score, content_length) ==
    LET num == IF content_length < 2000 THEN 5 * raw_score ELSE raw_score
        den == IF content_length < 2000 THEN content_length + 5 * raw_score
               ELSE 400 + raw_score
    IN  IF content_length = 0 THEN {0}
        ELSE RoundedThousandths(num, den)

\* DocumentAnalyzer._normalize_confidence, for a raw score in twentieths: the
\* confidences in thousandths it can return.  adjusted_score / (1.0 +
\* adjusted_score) is num / den.
normalize_confidence(raw_score, content_length) ==
    LET num == IF content_length < 2000 THEN 5 * raw_score ELSE raw_score
        den == IF content_length < 2000 THEN content_length + 5 * raw_score
               ELSE 400 + raw_score
    IN  IF content_length = 0 THEN {0}
        ELSE IF 100 * num >= 95 * den THEN {950}
        ELSE RoundedThousandths(num, den)

\* DocumentAnalyzer._get_structured_blocks_strategy
get_structured_blocks_strategy(content) ==
    LET empty_lines == Len(TakeMatches(ParagraphBreaks(content), 0))
        headings == Len(TakeMatches(HeadingMatches(content), 0))
        numbered_items == Len(TakeMatches(NumberedMatches(content), 0))
    IN  IF headings >= 3 /\ 2 * headings > empty_lines
        THEN "structured-blocks/heading-separated"
        ELSE IF numbered_items >= 3 /\ 2 * numbered_items > empty_lines
        THEN "structured-blocks/numbered-separated"
        ELSE "structured-blocks/empty-line-separated"

\* DocumentAnalyzer._get_recommended_strategy
get_recommended_strategy(document_type, content) ==
    CASE document_type = "structured_blocks" -> get_structured_blocks_strategy(content)
      [] document_type = "product_catalog" -> "structured-blocks/empty-line-separated"
      [] document_type = "user_manual" -> "structured-blocks/heading-separated"
      [] document_type = "faq" -> "faq/qa-pairs"
      [] document_type = "article" -> "article/sentence-based"
      [] document_type = "legal_document" -> "legal/paragraph-based"
      [] document_type = "code_documentation" -> "code/function-based"
      [] document_type = "unknown" -> "structured-blocks/empty-line-separated"
      [] OTHER -> "structured-blocks/empty-line-separated"

\* DocumentAnalyzer.analyze: type_scores for the first t document types, in
\* the order of detection_patterns.
RECURSIVE TypeScores(_, _)
TypeScores(low, t) ==
    IF t = 0 THEN << >>
    ELSE Append(TypeScores(low, t - 1),
                calculate_type_score(low, detection_patterns[t].patterns))

\* DocumentAnalyzer.analyze from type_scores on: the type is the one with the
\* highest score, the first of them in the order of detection_patterns, with
\* its normalized confidence and the strategy recommended for it.
AnalysesFrom(content, type_scores) ==
    LET types == 1..Len(type_scores)
        best == SetMin({t \in types : \A u \in types : type_scores[t] >= type_scores[u]})
        best_type == detection_patterns[best].type
    IN  { [document_type |-> best_type, confidence |-> confidence,
           recommended_strategy |-> get_recommended_strategy(best_type, content)] :
            confidence \in normalize_confidence(type_scores[best], Len(content)) }

\* DocumentAnalyzer.analyze: the analyses it can return.
analyze(content) ==
    UNION { AnalysesFrom(content, type_scores) :
              type_scores \in { TypeScores(low, Len(detection_patterns)) :
                                  low \in {Lower(content)} } }

(***************************************************************************)
(* RAGDocumentProcessor (core/processor.py).  A confidence is kept in      *)
(* thousandths.                                                            *)
(***************************************************************************)

HIGH_CONFIDENCE_THRESHOLD == 700

\* DocumentType
DocumentTypes ==
    { "structured_blocks", "product_catalog", "user_manual", "faq", "article",
      "legal_document", "code_documentation", "unknown" }

\* A strategy selection that takes the lookup only above the threshold.
select_strategy_above_threshold(directive, analysis) ==
    IF TruthyStr(directive.strategy)
    THEN IF \E name \in StrategyNames : Chars(name) = directive.strategy[1]
         THEN Some(CHOOSE name \in StrategyNames : Chars(name) = directive.strategy[1])
         ELSE None
    ELSE IF analysis.confidence > HIGH_CONFIDENCE_THRESHOLD
    THEN Some(CASE analysis.document_type = "product_catalog" -> "products/semantic-boundary"
                [] analysis.document_type = "user_manual" -> "manual/section-based"
                [] analysis.document_type = "faq" -> "faq/qa-pairs"
                [] analysis.document_type = "article" -> "article/sentence-based"
                [] analysis.document_type = "legal_document" -> "legal/paragraph-based"
                [] analysis.document_type = "code_documentation" -> "code/function-based"
                [] OTHER -> "article/sentence-based")
    ELSE Some("article/sentence-based")

\* RAGDocumentProcessor._select_strategy(directive, analysis): Some(the name
\* of the selected strategy), or None when it raises ValueError.
select_strategy(directive, analysis) ==
    IF TruthyStr(directive.strategy)
    THEN IF \E name \in StrategyNames : Chars(name) = directive.strategy[1]
         THEN Some(CHOOSE name \in StrategyNames : Chars(name) = directive.strategy[1])
         ELSE None
    ELSE IF analysis.confidence >= HIGH_CONFIDENCE_THRESHOLD
    THEN Some(CASE analysis.document_type = "product_catalog" -> "products/semantic-boundary"
                [] analysis.document_type = "user_manual" -> "manual/section-based"
                [] analysis.document_type = "faq" -> "faq/qa-pairs"
                [] analysis.document_type = "article" -> "article/sentence-based"
                [] analysis.document_type = "legal_document" -> "legal/paragraph-based"
                [] analysis.document_type = "code_documentation" -> "code/function-based"
                [] OTHER -> "article/sentence-based")
    ELSE Some("article/sentence-based")

(***************************************************************************)
(* Bounds and input universes                                              *)
(***************************************************************************)

\* The most lines a document loaded into the parser has.
MaxDocLines == 3

\* The longest synthetic strategy name a directive carries.
MaxNameLen == 2

\* All sequences over S of length at most n.
RECURSIVE SeqsUpTo(_, _)
SeqsUpTo(S, n) ==
    IF n = 0 THEN { << >> }
    ELSE LET shorter == SeqsUpTo(S, n - 1)
         IN  shorter \cup { Append(q, x) : q \in {r \in shorter : Len(r) = n - 1}, x \in S }

\* The lines documents are made of: the interpreter marker, directive lines
\* (one indented, one with malformed JSON), a blank line, a body line and a
\* body line that begins with '@'.
DocLines ==
    { Chars("#!/usr/bin/env rag-processor"),
      Chars("@strategy: faq/qa-pairs"),
      Chars("  @source-url: https://example.com/faq"),
      Chars("@metadata: {\"type\":\"faq\"}"),
      Chars("@metadata: {bad json"),
      << >>,
      Chars("Q: What is this?"),
      Chars("@home is where the heart is") }

Documents == { Join(ls, << "\n" >>) : ls \in SeqsUpTo(DocLines, MaxDocLines) \ { << >> } }

\* Strategy names and source URLs a caller may put in a ProcessingDirective:
\* absent, empty, or a single line without surrounding whitespace.
DirectiveStrategies ==
    { None, Some(Chars("faq/qa-pairs")) }
    \cup { Some(n) : n \in { q \in SeqsUpTo({"a", "/", " "}, MaxNameLen) : Strip(q) = q } }

DirectiveUrls == { None, Some(<< >>), Some(Chars("https://example.com/faq")) }

\* JSON objects a caller may put in a ProcessingDirective.
DirectiveMetadata ==
    { JObj(<< >>),
      JObj(<< << Chars("type"), JStr(Chars("faq")) >> >>),
      JObj(<< << Chars("tags"), JArr(<< JNum(1), JStr(Chars("a\"b")), JNull, JBool(TRUE) >>) >>,
              << Chars("owner"), JObj(<< << Chars("id"), JNum(-20) >> >>) >> >>) }

Directives ==
    [strategy : DirectiveStrategies, source_url : DirectiveUrls, metadata : DirectiveMetadata]

\* Structured content the CSV converter has built from its rows.
CsvContents ==
    { Chars("Name: Widget\nPrice: 10\n\nName: Gadget\nPrice: 20") }

\* The longest text handed to the TextChunker.
MaxTextLen == 5

\* The largest chunk_size / max_size, overlap and min_size of a chunker call.
MaxChunkSize == 3

MaxOverlap == 2

MaxMinSize == 2

\* Texts of words, spaces and boundary characters.
ChunkerTexts == SeqsUpTo({"a", " ", "|"}, MaxTextLen)

\* The longest text handed to a chunker loop that is followed to its end.
MaxLoopTextLen == 4

\* Texts of words and spaces.
LoopTexts == SeqsUpTo({"a", " "}, MaxLoopTextLen)

\* The boundary pattern of the chunk_by_pattern calls: the literal character.
BoundaryPattern == "|"

\* The most issues a strategy's validate_content reports.
MaxStrategyIssues == 3

\* Bodies handed to the ValidationEngine: empty, blank, too short, and two of
\* more than 100 characters, one well formed and one with a malformed field
\* and a smart quote.
ValidatorBodies ==
    { << >>,
      Chars("  \n "),
      Chars("Q: What is this?"),
      Chars("Title: Widget catalog\n\nThe widget is a small tool. It is sold in boxes of ten.\n\nurl: https://example.com/widgets and some more text."),
      Chars("title: ab\n\nIt") \o << "U+2019" >>
          \o Chars("s a product list that was pasted from a word processor\n\nemail: nobody at example.com, phone: none") }

\* Directives the parser produces for the headers of documents to validate.
ValidatorDirectives ==
    LET strategy_lines == { << >>, << Chars("@strategy: faq/qa-pairs") >>,
                            << Chars("@strategy: faq") >> }
        url_lines == { << >>, << Chars("@source-url: https://example.com/faq") >>,
                       << Chars("@source-url: ftp://example.com/faq") >> }
        metadata_lines ==
            { << >> } \cup
            { << Chars("@metadata: ") \o Chars(m) >> :
                m \in { "{\"type\":\"faq\"}", "{\"type\":\"faq\",\"version\":\"1\"}",
                        "{\"type\":[\"faq\"]}", "5", "0", "true", "null",
                        "\"type\"", "\"faq\"", "[\"type\"]", "[1]" } }
    IN  { parse(Join(a \o b \o c, << "\n" >>)).directive :
            a \in strategy_lines, b \in url_lines, c \in metadata_lines }

\* The most blocks a body handed to a strategy is made of.
MaxBlocks == 2

\* Blocks that are one explicit question and answer pair each: two pairs of
\* under 50 characters and two of more, one of them with a second
\* interrogative word after the leading one.
QaPairBlocks ==
    { Chars("Q: What is this?\nA: It is a test."),
      Chars("Q: How does it work?\nA: It works well."),
      Chars("Q: What is this product and who makes it?\nA: It is a test product made by the company."),
      Chars("Q: How do I know what this product does?\nA: Read the label on the box of the product.") }

\* The blocks of those bodies: a product of more than 50 characters, a short
\* product, a block whose only field is none of the product fields, plain
\* text, a heading with sentences and an unterminated end, a numbered step,
\* a legal article of more than 100 characters, the question and answer
\* pairs.
StrategyBlocks ==
    { Chars("Name: Widget\nPrice: 10 dollars for a box of ten widgets in any color"),
      Chars("Name: Nut\nPrice: 1"),
      Chars("Color: red and blue and green stripes on a white background, two coats"),
      Chars("Preface to the catalog"),
      Chars("# Heading one\nThe first section. It has a trailing fragment"),
      Chars("1. Open the box. Remove the lid."),
      Chars("Article 1: Scope\nThe parties agree that this agreement covers every delivery made by the seller to the buyer in the year.") }
    \cup QaPairBlocks

\* Bodies handed to the strategies: the blocks, separated by blank lines.
StrategyBodies ==
    { Join(blocks, << "\n", "\n" >>) : blocks \in SeqsUpTo(StrategyBlocks, MaxBlocks) }
    \cup { Chars("  \n ") }

\* The blocks of the bodies handed to the analyzer: product fields at line
\* starts and inside a line, a manual chapter, a question and answer pair, a
\* sentence, a legal article, code, a single character, and a line of one
\* hundred and more characters that matches no pattern.
AnalyzerBlocks ==
    { Chars("Name: Widget\nDescription: a box of ten\nPrice: 10 dollars"),
      Chars("our brand: Acme, sku: 12, product: drill, item: 7"),
      Chars("Chapter 1\nStep 1\n1. How to open the box"),
      Chars("Q: What is this?\nA: It is a test."),
      Chars("This is a plain sentence."),
      Chars("Article 1 of the Agreement"),
      Chars("def run(x):\n    import os"),
      Chars("x"),
      Chars("Terms and Conditions\nSection 2.1 is hereby agreed"),
      Chars("lorem ipsum dolor sit amet consectetur adipiscing elit sed do eiusmod tempor incididunt ut labore et dolore magna aliqua") }

\* A body of more than 2000 characters: lines of words, every one a numbered
\* step.
LongAnalyzerBody ==
    Join([i \in 1..60 |-> Chars("1. open the box and take the parts out")], << "\n" >>)

\* Bodies handed to the analyzer: the blocks, separated by blank lines (the
\* empty body among them), and the long body.
AnalyzerBodies ==
    { Join(blocks, << "\n", "\n" >>) : blocks \in SeqsUpTo(AnalyzerBlocks, MaxBlocks) }
    \cup { LongAnalyzerBody }

\* Documents handed to process_content: a header of at most one strategy line
\* and one metadata line, then a body.
ProcessorStrategyLines ==
    { << >>,
      Chars("@strategy: products/semantic-boundary\n"),
      Chars("@strategy: faq/qa-pairs\n"),
      Chars("@strategy: products/by-price\n") }

ProcessorMetadataLines ==
    { << >>,
      Chars("@metadata: {\"type\": \"catalog\"}\n"),
      Chars("@metadata: {bad json\n"),
      Chars("@metadata: 5\n") }

\* Words that match no detection pattern.
LoremWords ==
    Chars("lorem ipsum dolor sit amet consectetur adipiscing elit sed do eiusmod tempor incididunt ut labore et dolore magna aliqua ")

\* A body of one legal reference followed by n characters of words.
ArticleBody(n) ==
    Chars("\nArticle 1 ") \o SubSeq(LoremWords \o LoremWords, 1, n)

\* Bodies of documents: two blocks of fields, a line of product fields, a pair
\* of question and answer, and two legal bodies, of 161 and of 162 characters,
\* whose confidences are 0.700 and 0.698.
ProcessorBodies ==
    { Chars("\nName: Nut\nPrice: 1"),
      Chars("\nColor: red and blue and green stripes on a white background, two coats"),
      Chars("\nour brand: Acme, sku: 12, product: drill, item: 7"),
      Chars("\nQ: What is this product and who makes it?\nA: It is a test product made by the company."),
      ArticleBody(151),
      ArticleBody(152) }

ProcessorDocuments ==
    { s \o m \o b : s \in ProcessorStrategyLines, m \in ProcessorMetadataLines,
                    b \in ProcessorBodies }

(***************************************************************************)
(* State                                                                   *)
(***************************************************************************)

\* The most sections a body handed to the manual strategy is made of.
MaxSections == 3

\* Sections of a manual: headers of the levels 1 to 3 and 6 followed by a
\* paragraph, and one section that is under 100 characters.
ManualSections ==
    { Chars("# Setup\n") \o LoremWords,
      Chars("# Usage\n") \o LoremWords,
      Chars("## Install\n") \o LoremWords,
      Chars("## Run\n") \o LoremWords,
      Chars("### Options\n") \o LoremWords,
      Chars("###### Detail\n") \o LoremWords,
      Chars("## Notes\nSee below.") }

\* Bodies handed to the manual strategy: the sections, separated by blank
\* lines.
ManualBodies ==
    { Join(sections, << "\n", "\n" >>) : sections \in SeqsUpTo(ManualSections, MaxSections) \ { << >> } }

\* The lengths of the bodies whose quality is assessed on its own: they lie
\* around 500 characters, where the length factor changes its rule.
MinBodyLength == 486

MaxBodyLength == 515

\* Bodies of these lengths, made of words.
QualityBodies ==
    { SubSeq(LoremWords \o LoremWords \o LoremWords \o LoremWords \o LoremWords, 1, n) :
        n \in MinBodyLength..MaxBodyLength }

\* The most threads that call process_content on one processor at a time.
MaxThreads == 2

Threads == 1..MaxThreads

\* Documents handed to concurrent process_content calls: one per strategy
\* line, the last two with a metadata line.
ConcurrentDocuments ==
    { Chars("\nName: Nut\nPrice: 1"),
      Chars("@strategy: faq/qa-pairs\n")
          \o Chars("\nQ: What is this product and who makes it?\nA: It is a test product made by the company."),
      Chars("@strategy: products/by-price\n") \o Chars("\nName: Nut\nPrice: 1"),
      Chars("@strategy: products/semantic-boundary\n")
          \o Chars("@metadata: {\"type\": \"catalog\"}\n")
          \o Chars("\nour brand: Acme, sku: 12, product: drill, item: 7"),
      Chars("@metadata: {bad json\n") \o ArticleBody(151) }

VARIABLES
    parser_pc,      \* "off", "idle" (no text yet), "loaded"
    content,        \* the text handed to the DirectiveParser
    origin,         \* where content came from
    parse_result,   \* None, or Some(what parse(content) returned or raised)
    extract_result  \* None, or Some(extract_content(content))

parserVars == << parser_pc, content, origin, parse_result, extract_result >>

VARIABLES
    chunker_pc,     \* "off", "idle", "size_loop" (inside chunk_by_size),
                    \* "split_loop" (inside _split_large_chunk), "done"
    chunker_call,   \* the arguments of the TextChunker call
    size_loop,      \* the local state of the while loop the call is in
    chunk_result    \* the list the call returned

chunkerVars == << chunker_pc, chunker_call, size_loop, chunk_result >>

VARIABLES
    validator_pc,       \* "off", "idle", "done"
    validation_call,    \* the arguments of the ValidationEngine call
    validation_result   \* what the call returned, or that it raised

validatorVars == << validator_pc, validation_call, validation_result >>

VARIABLES
    strategy_pc,        \* "off", "idle", "done"
    strategy_call,      \* the strategy and the body of the process call
    process_result      \* what the call returned, or that it raised

strategyVars == << strategy_pc, strategy_call, process_result >>

VARIABLES
    proc_pc,            \* the position of process_content, "off" when not in use
    proc_content,       \* its content argument
    proc_error,         \* the step that raised, "" when none did
    proc_directive,       \* the locals of process_content, None until assigned
    document_text,
    analysis,
    strategy_name,
    validation,
    chunks,
    result              \* the ProcessingResult returned, None until then

processorVars ==
    << proc_pc, proc_content, proc_error, proc_directive, document_text, analysis,
       strategy_name, validation, chunks, result >>

VARIABLES
    analyzer_pc,        \* "off", "idle", "done"
    analyzer_content,   \* the content handed to analyze
    analyzer_result     \* None, or Some(the DocumentAnalysis returned)

analyzerVars == << analyzer_pc, analyzer_content, analyzer_result >>

VARIABLES
    conc_pc,            \* per thread, the position of its process_content call
    conc_content,       \* per thread, the content argument of its call
    conc_error,         \* per thread, the step of its call that raised, "" when none
    conc_result,        \* per thread, the ProcessingResult returned, None until then
    conc_preempted,     \* per thread, whether another thread ran a statement
                        \* between two statements of its call
    conc_alone,         \* per thread, the positions its call passes through when
                        \* it runs on a processor of its own, noted at the call
    frames,             \* per call frame, the locals of process_content
    registry            \* self.strategies and self.client_configs, by their keys

concurrentVars ==
    << conc_pc, conc_content, conc_error, conc_result, conc_preempted, conc_alone, frames,
       registry >>

vars ==
    << parserVars, chunkerVars, validatorVars, strategyVars, processorVars, analyzerVars,
       concurrentVars >>

Origin(kind, strategy, directive) ==
    [kind |-> kind, strategy |-> strategy, directive |-> directive]

ParserOff ==
    /\ parser_pc = "off"
    /\ content = << >>
    /\ origin = Origin("none", "", EmptyDirective)
    /\ parse_result = None
    /\ extract_result = None

ChunkerCall(fn, text, size, overlap, min_size) ==
    [fn |-> fn, text |-> text, size |-> size, overlap |-> overlap, min_size |-> min_size]

ChunkerOff ==
    /\ chunker_pc = "off"
    /\ chunker_call = ChunkerCall("none", << >>, 0, 0, 0)
    /\ size_loop = SizeLoopStart
    /\ chunk_result = << >>

ValidationCall(fn, body, directive, strategy_issues) ==
    [fn |-> fn, content |-> body, directive |-> directive,
     strategy_issues |-> strategy_issues]

ValidatorOff ==
    /\ validator_pc = "off"
    /\ validation_call = ValidationCall("none", << >>, EmptyDirective, 0)
    /\ validation_result = ValidationResult("none", FALSE, << >>, 0)

StrategyOff ==
    /\ strategy_pc = "off"
    /\ strategy_call = [name |-> "none", content |-> << >>]
    /\ process_result = StrategyResult("none", << >>, << >>)

ProcessorLocalsUnset ==
    /\ proc_error = ""
    /\ proc_directive = None
    /\ document_text = None
    /\ analysis = None
    /\ strategy_name = None
    /\ validation = None
    /\ chunks = None
    /\ result = None

ProcessorOff ==
    /\ proc_pc = "off"
    /\ proc_content = << >>
    /\ ProcessorLocalsUnset

AnalyzerOff ==
    /\ analyzer_pc = "off"
    /\ analyzer_content = << >>
    /\ analyzer_result = None

\* The locals of process_content before any of them is assigned.
UnsetLocals ==
    [directive |-> None, document_text |-> None, analysis |-> None,
     strategy_name |-> None, validation |-> None, chunks |-> None]

\* RAGDocumentProcessor.__init__: the registered strategies and client
\* configurations.
InitialRegistry == [strategies |-> StrategyNames, client_configs |-> {"default"}]

ConcurrentOff ==
    /\ conc_pc = [t \in Threads |-> "off"]
    /\ conc_content = [t \in Threads |-> << >>]
    /\ conc_error = [t \in Threads |-> ""]
    /\ conc_result = [t \in Threads |-> None]
    /\ conc_preempted = [t \in Threads |-> FALSE]
    /\ conc_alone = [t \in Threads |-> {}]
    /\ frames = [f \in Threads |-> UnsetLocals]
    /\ registry = InitialRegistry

(***************************************************************************)
(* The directive parser and the header producers                           *)
(***************************************************************************)

InitParser ==
    /\ parser_pc = "idle"
    /\ content = << >>
    /\ origin = Origin("none", "", EmptyDirective)
    /\ parse_result = None
    /\ extract_result = None
    /\ ChunkerOff
    /\ ValidatorOff
    /\ StrategyOff
    /\ ProcessorOff
    /\ AnalyzerOff
    /\ ConcurrentOff

\* A document arrives as text.
LoadDocument ==
    /\ parser_pc = "idle"
    /\ \E doc \in Documents :
          /\ content' = doc
          /\ origin' = Origin("document", "", EmptyDirective)
    /\ parser_pc' = "loaded"
    /\ UNCHANGED << parse_result, extract_result >>
    /\ UNCHANGED << chunkerVars, validatorVars, strategyVars, processorVars, analyzerVars,
                    concurrentVars >>

\* DirectiveParser.create_directive_header(d)
CallCreateDirectiveHeader ==
    /\ parser_pc = "idle"
    /\ \E d \in Directives :
          /\ content' = create_directive_header(d)
          /\ origin' = Origin("header", "", d)
    /\ parser_pc' = "loaded"
    /\ UNCHANGED << parse_result, extract_result >>
    /\ UNCHANGED << chunkerVars, validatorVars, strategyVars, processorVars, analyzerVars,
                    concurrentVars >>

\* strategy.create_template(client_config) for a registered strategy
CallCreateTemplate ==
    /\ parser_pc = "idle"
    /\ \E name \in StrategyNames :
          /\ content' = create_template(name)
          /\ origin' = Origin("template", name, EmptyDirective)
    /\ parser_pc' = "loaded"
    /\ UNCHANGED << parse_result, extract_result >>
    /\ UNCHANGED << chunkerVars, validatorVars, strategyVars, processorVars, analyzerVars,
                    concurrentVars >>

\* CSVConverter.convert: the text it writes to the .rag file
CallConvertCsv ==
    /\ parser_pc = "idle"
    /\ \E name \in StrategyNames, url \in DirectiveUrls, text \in CsvContents :
          /\ content' = create_rag_content(text, name, url, Chars("items.csv"), 2)
          /\ origin' = Origin("csv", name, EmptyDirective)
    /\ parser_pc' = "loaded"
    /\ UNCHANGED << parse_result, extract_result >>
    /\ UNCHANGED << chunkerVars, validatorVars, strategyVars, processorVars, analyzerVars,
                    concurrentVars >>

\* DirectiveParser.parse(content)
CallParse ==
    /\ parser_pc = "loaded"
    /\ parse_result = None
    /\ parse_result' = Some(parse(content))
    /\ UNCHANGED << parser_pc, content, origin, extract_result >>
    /\ UNCHANGED << chunkerVars, validatorVars, strategyVars, processorVars, analyzerVars,
                    concurrentVars >>

\* DirectiveParser.extract_content(content)
CallExtractContent ==
    /\ parser_pc = "loaded"
    /\ extract_result = None
    /\ extract_result' = Some(extract_content(content))
    /\ UNCHANGED << parser_pc, content, origin, parse_result >>
    /\ UNCHANGED << chunkerVars, validatorVars, strategyVars, processorVars, analyzerVars,
                    concurrentVars >>

NextParser ==
    \/ LoadDocument
    \/ CallCreateDirectiveHeader
    \/ CallCreateTemplate
    \/ CallConvertCsv
    \/ CallParse
    \/ CallExtractContent

SpecParser == InitParser /\ [][NextParser]_vars

(***************************************************************************)
(* The text chunker                                                        *)
(***************************************************************************)

InitChunker ==
    /\ chunker_pc = "idle"
    /\ chunker_call = ChunkerCall("none", << >>, 0, 0, 0)
    /\ size_loop = SizeLoopStart
    /\ chunk_result = << >>
    /\ ParserOff
    /\ ValidatorOff
    /\ StrategyOff
    /\ ProcessorOff
    /\ AnalyzerOff
    /\ ConcurrentOff

\* TextChunker.chunk_by_size(text, chunk_size, overlap, min_size) is entered.
CallChunkBySize ==
    /\ chunker_pc = "idle"
    /\ \E text \in ChunkerTexts, chunk_size \in 1..MaxChunkSize,
          overlap \in 0..MaxOverlap, min_size \in 1..MaxMinSize :
          chunker_call' = ChunkerCall("chunk_by_size", text, chunk_size, overlap, min_size)
    /\ size_loop' = SizeLoopStart
    /\ chunker_pc' = "size_loop"
    /\ UNCHANGED chunk_result
    /\ UNCHANGED << parserVars, validatorVars, strategyVars, processorVars, analyzerVars,
                    concurrentVars >>

\* One iteration of chunk_by_size's while loop.
ChunkBySizeIterate ==
    /\ chunker_pc = "size_loop"
    /\ SizeLoopRuns(chunker_call.text, size_loop)
    /\ size_loop' = SizeLoopStep(chunker_call.text, chunker_call.size,
                                 chunker_call.overlap, chunker_call.min_size, size_loop)
    /\ UNCHANGED << chunker_pc, chunker_call, chunk_result >>
    /\ UNCHANGED << parserVars, validatorVars, strategyVars, processorVars, analyzerVars,
                    concurrentVars >>

\* chunk_by_size leaves its loop and returns the chunks.
ChunkBySizeReturn ==
    /\ chunker_pc = "size_loop"
    /\ ~SizeLoopRuns(chunker_call.text, size_loop)
    /\ chunk_result' = size_loop.chunks
    /\ chunker_pc' = "done"
    /\ UNCHANGED << chunker_call, size_loop >>
    /\ UNCHANGED << parserVars, validatorVars, strategyVars, processorVars, analyzerVars,
                    concurrentVars >>

\* TextChunker.chunk_by_pattern(text, pattern, overlap, min_size, max_size)
CallChunkByPattern ==
    /\ chunker_pc = "idle"
    /\ \E text \in ChunkerTexts, max_size \in 1..MaxChunkSize,
          overlap \in 0..MaxOverlap, min_size \in 1..MaxMinSize :
          /\ chunker_call' = ChunkerCall("chunk_by_pattern", text, max_size, overlap, min_size)
          /\ chunk_result' = chunk_by_pattern(text, BoundaryPattern, overlap, min_size, max_size)
    /\ chunker_pc' = "done"
    /\ UNCHANGED size_loop
    /\ UNCHANGED << parserVars, validatorVars, strategyVars, processorVars, analyzerVars,
                    concurrentVars >>

\* TextChunker.chunk_by_size(text, chunk_size, overlap, min_size) is entered
\* with a text of words.
CallChunkBySizeOfWords ==
    /\ chunker_pc = "idle"
    /\ \E text \in LoopTexts, chunk_size \in 1..MaxChunkSize,
          overlap \in 0..MaxOverlap, min_size \in 1..MaxMinSize :
          chunker_call' = ChunkerCall("chunk_by_size", text, chunk_size, overlap, min_size)
    /\ size_loop' = SizeLoopStart
    /\ chunker_pc' = "size_loop"
    /\ UNCHANGED chunk_result
    /\ UNCHANGED << parserVars, validatorVars, strategyVars, processorVars, analyzerVars,
                    concurrentVars >>

\* TextChunker._split_large_chunk(chunk_text, max_size, overlap, 0) is
\* entered; the call has no min_size.
CallSplitLargeChunk ==
    /\ chunker_pc = "idle"
    /\ \E chunk_text \in LoopTexts, max_size \in 1..MaxChunkSize,
          overlap \in 0..MaxOverlap :
          chunker_call' = ChunkerCall("_split_large_chunk", chunk_text, max_size, overlap, 0)
    /\ size_loop' = SizeLoopStart
    /\ chunker_pc' = "split_loop"
    /\ UNCHANGED chunk_result
    /\ UNCHANGED << parserVars, validatorVars, strategyVars, processorVars, analyzerVars,
                    concurrentVars >>

\* One iteration of _split_large_chunk's while loop.
SplitLargeChunkIterate ==
    /\ chunker_pc = "split_loop"
    /\ SplitLoopRuns(chunker_call.text, size_loop)
    /\ size_loop' = SplitLoopStep(chunker_call.text, chunker_call.size,
                                  chunker_call.overlap, 0, size_loop)
    /\ UNCHANGED << chunker_pc, chunker_call, chunk_result >>
    /\ UNCHANGED << parserVars, validatorVars, strategyVars, processorVars, analyzerVars,
                    concurrentVars >>

\* _split_large_chunk leaves its loop and returns the sub-chunks.
SplitLargeChunkReturn ==
    /\ chunker_pc = "split_loop"
    /\ ~SplitLoopRuns(chunker_call.text, size_loop)
    /\ chunk_result' = size_loop.chunks
    /\ chunker_pc' = "done"
    /\ UNCHANGED << chunker_call, size_loop >>
    /\ UNCHANGED << parserVars, validatorVars, strategyVars, processorVars, analyzerVars,
                    concurrentVars >>

NextChunker ==
    \/ CallChunkBySize
    \/ ChunkBySizeIterate
    \/ ChunkBySizeReturn
    \/ CallChunkByPattern

SpecChunker == InitChunker /\ [][NextChunker]_vars

\* The two loops of the chunker on texts of words.
NextLoops ==
    \/ CallChunkBySizeOfWords
    \/ ChunkBySizeIterate
    \/ ChunkBySizeReturn
    \/ CallSplitLargeChunk
    \/ SplitLargeChunkIterate
    \/ SplitLargeChunkReturn

\* The chunker's loops are sequential code: a loop that can take its next
\* iteration takes it, and a loop that has ended returns.
LiveChunker ==
    /\ InitChunker
    /\ [][NextLoops]_vars
    /\ WF_vars(ChunkBySizeIterate)
    /\ WF_vars(ChunkBySizeReturn)
    /\ WF_vars(SplitLargeChunkIterate)
    /\ WF_vars(SplitLargeChunkReturn)

(***************************************************************************)
(* The validation engine                                                   *)
(***************************************************************************)

InitValidator ==
    /\ validator_pc = "idle"
    /\ validation_call = ValidationCall("none", << >>, EmptyDirective, 0)
    /\ validation_result = ValidationResult("none", FALSE, << >>, 0)
    /\ ParserOff
    /\ ChunkerOff
    /\ StrategyOff
    /\ ProcessorOff
    /\ AnalyzerOff
    /\ ConcurrentOff

\* ValidationEngine.validate(content, strategy, client_config, directive); what
\* the strategy's validate_content reports is the strategy's business.
CallValidate ==
    /\ validator_pc = "idle"
    /\ \E body \in ValidatorBodies, directive \in ValidatorDirectives,
          strategy_issues \in 0..MaxStrategyIssues :
          /\ validation_call' = ValidationCall("validate", body, directive,
                                               strategy_issues)
          /\ validation_result' = validate(body, directive, strategy_issues)
    /\ validator_pc' = "done"
    /\ UNCHANGED << parserVars, chunkerVars, strategyVars, processorVars, analyzerVars,
                    concurrentVars >>

\* ValidationEngine.validate_directive_only(directive)
CallValidateDirectiveOnly ==
    /\ validator_pc = "idle"
    /\ \E directive \in ValidatorDirectives :
          /\ validation_call' = ValidationCall("validate_directive_only", << >>,
                                               directive, 0)
          /\ validation_result' = validate_directive_only(directive)
    /\ validator_pc' = "done"
    /\ UNCHANGED << parserVars, chunkerVars, strategyVars, processorVars, analyzerVars,
                    concurrentVars >>

NextValidator ==
    \/ CallValidate
    \/ CallValidateDirectiveOnly

SpecValidator == InitValidator /\ [][NextValidator]_vars

(***************************************************************************)
(* The content quality assessment of the validation engine                 *)
(***************************************************************************)

InitQuality ==
    /\ validator_pc = "idle"
    /\ validation_call = ValidationCall("none", << >>, EmptyDirective, 0)
    /\ validation_result = ValidationResult("none", FALSE, << >>, 0)
    /\ ParserOff
    /\ ChunkerOff
    /\ StrategyOff
    /\ ProcessorOff
    /\ AnalyzerOff
    /\ ConcurrentOff

\* ValidationEngine._assess_content_quality(content, strategy, client_config)
CallAssessContentQuality ==
    /\ validator_pc = "idle"
    /\ \E body \in QualityBodies, strategy_issues \in 0..MaxStrategyIssues :
          /\ validation_call' = ValidationCall("assess_content_quality", body,
                                               EmptyDirective, strategy_issues)
          /\ validation_result' = QualityResult(assess_content_quality(body, strategy_issues))
    /\ validator_pc' = "done"
    /\ UNCHANGED << parserVars, chunkerVars, strategyVars, processorVars, analyzerVars,
                    concurrentVars >>

NextQuality == CallAssessContentQuality

SpecQuality == InitQuality /\ [][NextQuality]_vars

(***************************************************************************)
(* The chunking strategies                                                 *)
(***************************************************************************)

InitStrategies ==
    /\ strategy_pc = "idle"
    /\ strategy_call = [name |-> "none", content |-> << >>]
    /\ process_result = StrategyResult("none", << >>, << >>)
    /\ ParserOff
    /\ ChunkerOff
    /\ ValidatorOff
    /\ ProcessorOff
    /\ AnalyzerOff
    /\ ConcurrentOff

\* strategy.process(content, directive, client_config)
CallProcess ==
    /\ strategy_pc = "idle"
    /\ \E name \in ChunkingStrategies, body \in StrategyBodies :
          /\ strategy_call' = [name |-> name, content |-> body]
          /\ process_result' = StrategyProcess(name, body)
    /\ strategy_pc' = "done"
    /\ UNCHANGED << parserVars, chunkerVars, validatorVars, processorVars, analyzerVars,
                    concurrentVars >>

NextStrategies == CallProcess

SpecStrategies == InitStrategies /\ [][NextStrategies]_vars

(***************************************************************************)
(* The manual strategy                                                     *)
(***************************************************************************)

InitManual ==
    /\ strategy_pc = "idle"
    /\ strategy_call = [name |-> "none", content |-> << >>]
    /\ process_result = StrategyResult("none", << >>, << >>)
    /\ ParserOff
    /\ ChunkerOff
    /\ ValidatorOff
    /\ ProcessorOff
    /\ AnalyzerOff
    /\ ConcurrentOff

\* ManualStrategy().process(content, directive, client_config)
CallManualProcess ==
    /\ strategy_pc = "idle"
    /\ \E body \in ManualBodies :
          /\ strategy_call' = [name |-> "manual/section-based", content |-> body]
          /\ process_result' = manual_process(body)
    /\ strategy_pc' = "done"
    /\ UNCHANGED << parserVars, chunkerVars, validatorVars, processorVars, analyzerVars,
                    concurrentVars >>

NextManual == CallManualProcess

SpecManual == InitManual /\ [][NextManual]_vars

(***************************************************************************)
(* RAGDocumentProcessor.process_content, one action per statement          *)
(***************************************************************************)

InitProcessor ==
    /\ proc_pc = "idle"
    /\ proc_content = << >>
    /\ ProcessorLocalsUnset
    /\ ParserOff
    /\ ChunkerOff
    /\ ValidatorOff
    /\ StrategyOff
    /\ AnalyzerOff
    /\ ConcurrentOff

OthersUnchanged ==
    UNCHANGED << parserVars, chunkerVars, validatorVars, strategyVars, analyzerVars,
                 concurrentVars >>

\* process_content(content) is called.
CallProcessContent ==
    /\ proc_pc = "idle"
    /\ \E c \in ProcessorDocuments : proc_content' = c
    /\ proc_pc' = "called"
    /\ UNCHANGED << proc_error, proc_directive, document_text, analysis, strategy_name,
                    validation, chunks, result >>
    /\ OthersUnchanged

\* directive = self.directive_parser.parse(content)
\* document_text = self.directive_parser.extract_content(content)
ProcParse ==
    /\ proc_pc = "called"
    /\ \E r \in {parse(proc_content)} :
           IF r.status = "raised"
           THEN /\ proc_pc' = "raised"
                /\ proc_error' = "parse"
                /\ UNCHANGED << proc_directive, document_text >>
           ELSE /\ proc_pc' = "parsed"
                /\ proc_directive' = Some(r.directive)
                /\ document_text' = Some(extract_content(proc_content))
                /\ UNCHANGED proc_error
    /\ UNCHANGED << proc_content, analysis, strategy_name, validation, chunks, result >>
    /\ OthersUnchanged

\* analysis = self.analyzer.analyze(document_text)
ProcAnalyze ==
    /\ proc_pc = "parsed"
    /\ \E a \in analyze(document_text[1]) : analysis' = Some(a)
    /\ proc_pc' = "analyzed"
    /\ UNCHANGED << proc_content, proc_error, proc_directive, document_text, strategy_name,
                    validation, chunks, result >>
    /\ OthersUnchanged

\* strategy_name = self._select_strategy(directive, analysis)
\* strategy = self.strategies[strategy_name]
ProcSelect ==
    /\ proc_pc = "analyzed"
    /\ LET selected == select_strategy(proc_directive[1], analysis[1])
       IN  IF selected = None
           THEN /\ proc_pc' = "raised"
                /\ proc_error' = "select"
                /\ UNCHANGED strategy_name
           ELSE /\ proc_pc' = "selected"
                /\ strategy_name' = selected
                /\ UNCHANGED proc_error
    /\ UNCHANGED << proc_content, proc_directive, document_text, analysis, validation,
                    chunks, result >>
    /\ OthersUnchanged

\* client_config = self._get_client_config(directive)
\* validation = self.validator.validate(document_text, strategy, client_config, directive)
\* The strategy's validate_content contributes any number of issues.
ProcValidate ==
    /\ proc_pc = "selected"
    /\ \E n \in 0..MaxStrategyIssues :
         \E v \in {validate(document_text[1], proc_directive[1], n)} :
             IF v.status = "raised"
             THEN /\ proc_pc' = "raised"
                  /\ proc_error' = "validate"
                  /\ UNCHANGED validation
             ELSE /\ proc_pc' = "validated"
                  /\ validation' = Some(v)
                  /\ UNCHANGED proc_error
    /\ UNCHANGED << proc_content, proc_directive, document_text, analysis, strategy_name,
                    chunks, result >>
    /\ OthersUnchanged

\* chunks = strategy.process(document_text, directive, client_config).  The
\* manual and code strategies are not modelled: their call returns some list
\* (kept empty here) or raises.
ProcChunk ==
    /\ proc_pc = "validated"
    /\ \E r \in (IF strategy_name[1] \in ChunkingStrategies
                 THEN { StrategyProcess(strategy_name[1], document_text[1]) }
                 ELSE { StrategyResult("ok", << >>, << >>),
                        StrategyResult("raised", << >>, << >>) }) :
         IF r.status = "raised"
         THEN /\ proc_pc' = "raised"
              /\ proc_error' = "process"
              /\ UNCHANGED chunks
         ELSE /\ proc_pc' = "chunked"
              /\ chunks' = Some(r.chunks)
              /\ UNCHANGED proc_error
    /\ UNCHANGED << proc_content, proc_directive, document_text, analysis, strategy_name,
                    validation, result >>
    /\ OthersUnchanged

\* return ProcessingResult(...)
ProcReturn ==
    /\ proc_pc = "chunked"
    /\ result' = Some([chunks |-> chunks[1],
                       analysis |-> analysis[1],
                       validation |-> validation[1],
                       strategy_used |-> strategy_name[1],
                       metadata |-> [total_chunks |-> Len(chunks[1]),
                                     total_characters |-> Len(document_text[1]),
                                     directive_metadata |-> proc_directive[1].metadata]])
    /\ proc_pc' = "done"
    /\ UNCHANGED << proc_content, proc_error, proc_directive, document_text, analysis,
                    strategy_name, validation, chunks >>
    /\ OthersUnchanged

NextProcessor ==
    \/ CallProcessContent
    \/ ProcParse
    \/ ProcAnalyze
    \/ ProcSelect
    \/ ProcValidate
    \/ ProcChunk
    \/ ProcReturn

SpecProcessor == InitProcessor /\ [][NextProcessor]_vars

(***************************************************************************)
(* Concurrent process_content calls on one RAGDocumentProcessor            *)
(***************************************************************************)

\* What a statement of process_content leaves behind: the position after it,
\* the step that raised, the locals, and the value returned.
Stepped(pc, error, locals, returned) ==
    [pc |-> pc, error |-> error, locals |-> locals, returned |-> returned]

\* directive = self.directive_parser.parse(content)
\* document_text = self.directive_parser.extract_content(content)
StatementParse(c, l) ==
    { IF r.status = "raised"
      THEN Stepped("raised", "parse", l, None)
      ELSE Stepped("parsed", "",
                   [l EXCEPT !.directive = Some(r.directive),
                             !.document_text = Some(extract_content(c))], None) :
      r \in {parse(c)} }

\* analysis = self.analyzer.analyze(document_text)
StatementAnalyze(l) ==
    { Stepped("analyzed", "", [l EXCEPT !.analysis = Some(a)], None) :
      a \in analyze(l.document_text[1]) }

\* strategy_name = self._select_strategy(directive, analysis)
\* strategy = self.strategies[strategy_name]
StatementSelect(l, strategies) ==
    { IF selected = None \/ selected[1] \notin strategies
      THEN Stepped("raised", "select", l, None)
      ELSE Stepped("selected", "", [l EXCEPT !.strategy_name = selected], None) :
      selected \in {select_strategy(l.directive[1], l.analysis[1])} }

\* client_config = self._get_client_config(directive)
\* validation = self.validator.validate(document_text, strategy, client_config, directive)
\* The strategy's validate_content contributes any number of issues.
StatementValidate(l, client_configs) ==
    IF "default" \notin client_configs
    THEN { Stepped("raised", "client_config", l, None) }
    ELSE { IF v.status = "raised"
           THEN Stepped("raised", "validate", l, None)
           ELSE Stepped("validated", "", [l EXCEPT !.validation = Some(v)], None) :
           v \in { validate(l.document_text[1], l.directive[1], n) :
                     n \in 0..MaxStrategyIssues } }

\* chunks = strategy.process(document_text, directive, client_config).  The
\* manual and code strategies are not modelled: their call returns some list
\* (kept empty here) or raises.
StatementProcess(l) ==
    { IF r.status = "raised"
      THEN Stepped("raised", "process", l, None)
      ELSE Stepped("chunked", "", [l EXCEPT !.chunks = Some(r.chunks)], None) :
      r \in (IF l.strategy_name[1] \in ChunkingStrategies
             THEN { StrategyProcess(l.strategy_name[1], l.document_text[1]) }
             ELSE { StrategyResult("ok", << >>, << >>),
                    StrategyResult("raised", << >>, << >>) }) }

\* return ProcessingResult(...)
StatementReturn(l) ==
    { Stepped("done", "", l,
              Some([chunks |-> l.chunks[1],
                    analysis |-> l.analysis[1],
                    validation |-> l.validation[1],
                    strategy_used |-> l.strategy_name[1],
                    metadata |-> [total_chunks |-> Len(l.chunks[1]),
                                  total_characters |-> Len(l.document_text[1]),
                                  directive_metadata |-> l.directive[1].metadata]])) }

\* The statement of process_content at position pc, run on the locals l with
\* the registries reg of the processor: every way it can end.  No statement
\* assigns to the processor, the parser, the analyzer, the validator or a
\* strategy; the registries are only read.
Statement(pc, c, l, reg) ==
    CASE pc = "called" -> StatementParse(c, l)
      [] pc = "parsed" -> StatementAnalyze(l)
      [] pc = "analyzed" -> StatementSelect(l, reg.strategies)
      [] pc = "selected" -> StatementValidate(l, reg.client_configs)
      [] pc = "validated" -> StatementProcess(l)
      [] pc = "chunked" -> StatementReturn(l)

\* The positions at which a call has run a statement and has one left to run.
InFlight == { "parsed", "analyzed", "selected", "validated", "chunked" }

\* The locals of process_content live in a frame of the processor, shared by
\* all calls.
FrameOnProcessor(t) == 1

\* The locals of process_content live in the frame of the call: each call
\* of a thread has its own.
FrameOf(t) == t

\* The positions one statement after those of S, for the document c, on a
\* processor that no other call uses.
AloneAfter(S, c) ==
    UNION { Statement(st.pc, c, st.locals, InitialRegistry) :
              st \in { x \in S : x.pc \notin {"done", "raised"} } }

\* The positions seen, and those the call process_content(c) passes through
\* after the positions of the frontier when it runs alone.
RECURSIVE AloneFrom(_, _, _)
AloneFrom(seen, frontier, c) ==
    IF frontier = {} THEN seen
    ELSE AloneFrom(seen \cup frontier, AloneAfter(frontier, c), c)

\* Every position process_content(c) passes through when it runs alone, with
\* what it has assigned, raised and returned there.
AloneRun(c) == AloneFrom({}, { Stepped("called", "", UnsetLocals, None) }, c)

InitConcurrent ==
    /\ conc_pc = [t \in Threads |-> "idle"]
    /\ conc_content = [t \in Threads |-> << >>]
    /\ conc_error = [t \in Threads |-> ""]
    /\ conc_result = [t \in Threads |-> None]
    /\ conc_preempted = [t \in Threads |-> FALSE]
    /\ conc_alone = [t \in Threads |-> {}]
    /\ frames = [f \in Threads |-> UnsetLocals]
    /\ registry = InitialRegistry
    /\ ParserOff
    /\ ChunkerOff
    /\ ValidatorOff
    /\ StrategyOff
    /\ ProcessorOff
    /\ AnalyzerOff

\* Thread t calls processor.process_content(content).
ThreadCall(t) ==
    /\ conc_pc[t] = "idle"
    /\ \E c \in ConcurrentDocuments :
          /\ conc_content' = [conc_content EXCEPT ![t] = c]
          /\ conc_alone' = [conc_alone EXCEPT ![t] = AloneRun(c)]
    /\ conc_pc' = [conc_pc EXCEPT ![t] = "called"]
    /\ UNCHANGED << conc_error, conc_result, conc_preempted, frames, registry >>
    /\ UNCHANGED << parserVars, chunkerVars, validatorVars, strategyVars, processorVars,
                    analyzerVars >>

\* Thread t runs the next statement of its call.
ThreadStep(t) ==
    /\ conc_pc[t] \in { "called" } \cup InFlight
    /\ \E n \in Statement(conc_pc[t], conc_content[t], frames[FrameOf(t)], registry) :
          /\ conc_pc' = [conc_pc EXCEPT ![t] = n.pc]
          /\ conc_error' = [conc_error EXCEPT ![t] = n.error]
          /\ conc_result' = [conc_result EXCEPT ![t] = n.returned]
          /\ frames' = [frames EXCEPT ![FrameOf(t)] = n.locals]
    /\ conc_preempted' =
           [u \in Threads |-> conc_preempted[u] \/ (u # t /\ conc_pc[u] \in InFlight)]
    /\ UNCHANGED << conc_content, conc_alone, registry >>
    /\ UNCHANGED << parserVars, chunkerVars, validatorVars, strategyVars, processorVars,
                    analyzerVars >>

NextConcurrent == \E t \in Threads : ThreadCall(t) \/ ThreadStep(t)

SpecConcurrent == InitConcurrent /\ [][NextConcurrent]_vars

(***************************************************************************)
(* The document analyzer                                                   *)
(***************************************************************************)

InitAnalyzer ==
    /\ analyzer_pc = "idle"
    /\ analyzer_content = << >>
    /\ analyzer_result = None
    /\ ParserOff
    /\ ChunkerOff
    /\ ValidatorOff
    /\ StrategyOff
    /\ ProcessorOff
    /\ ConcurrentOff

\* analyzer.analyze(content)
CallAnalyze ==
    /\ analyzer_pc = "idle"
    /\ \E body \in AnalyzerBodies :
          /\ analyzer_content' = body
          /\ \E a \in analyze(body) : analyzer_result' = Some(a)
    /\ analyzer_pc' = "done"
    /\ UNCHANGED << parserVars, chunkerVars, validatorVars, strategyVars, processorVars,
                    concurrentVars >>

NextAnalyzer == CallAnalyze

SpecAnalyzer == InitAnalyzer /\ [][NextAnalyzer]_vars

(***************************************************************************)
(* Claims                                                                  *)
(***************************************************************************)

\* C3: directive headers emitted by the repository's own header producers are
\* recognized by DirectiveParser.parse: parsing a strategy's template, or a .rag
\* text written by the CSV converter for strategy S, yields strategy S, and the
\* header lines of the converter's text are absent from the extracted body.
C3_ProducedHeadersRecognized ==
    (origin.kind \in {"template", "csv"} /\ parse_result # None) =>
        /\ parse_result[1].status = "ok"
        /\ parse_result[1].directive.strategy = Some(Chars(origin.strategy))
        /\ (origin.kind = "csv" /\ extract_result # None) =>
              LET body == SplitOn(extract_result[1], "\n")
              IN  \A i \in 1..Len(body) : ~StartsWith(body[i], Chars("#!"))

\* C4: for every input text, extract_content(text) equals, up to trimming, the
\* body that parse's header scan delimits: the first line that is neither the
\* interpreter marker nor a directive line, with every line after it, verbatim.
C4_ExtractKeepsWholeBody ==
    (extract_result # None /\ parse_result # None /\ parse_result[1].status = "ok") =>
        LET lines == SplitOn(content, "\n")
            isHeader(l) == \/ StartsWith(Strip(l), Chars("#!/"))
                           \/ StartsWith(Strip(l), Chars("@"))
            bodyAt == {i \in 1..Len(lines) : ~isHeader(lines[i])}
            body == IF bodyAt = {} THEN << >>
                    ELSE Join(SubSeq(lines, SetMin(bodyAt), Len(lines)), << "\n" >>)
        IN  extract_result[1] = Strip(body)

\* C5 as stated: parse(create_directive_header(d)) == d for every directive d
\* whose strategy and source URL are single-line strings without surrounding
\* whitespace (or absent) and whose metadata is a JSON object.
C5_RoundTripAnyString ==
    (origin.kind = "header" /\ parse_result # None) =>
        /\ parse_result[1].status = "ok"
        /\ DirectiveEq(parse_result[1].directive, origin.directive)

\* C5 as amended: parse(create_directive_header(d)) == d for every directive d
\* whose strategy and source URL are each absent or a non-empty single-line
\* string without surrounding whitespace, and whose metadata is a JSON object.
C5_RoundTripNonEmpty ==
    (/\ origin.kind = "header"
     /\ parse_result # None
     /\ origin.directive.strategy # Some(<< >>)
     /\ origin.directive.source_url # Some(<< >>)) =>
        /\ parse_result[1].status = "ok"
        /\ DirectiveEq(parse_result[1].directive, origin.directive)

\* C5 witness: a header carrying a strategy, a source URL and a nested metadata
\* object has been created and parsed back.
C5_Witness ==
    /\ origin.kind = "header"
    /\ origin.directive.strategy = Some(Chars("faq/qa-pairs"))
    /\ origin.directive.source_url = Some(Chars("https://example.com/faq"))
    /\ Len(origin.directive.metadata.val) = 2
    /\ parse_result # None
    /\ parse_result[1].status = "ok"
    /\ parse_result[1].directive.strategy = Some(Chars("faq/qa-pairs"))

\* C10: every chunk returned by chunk_by_size or chunk_by_pattern, for any text
\* and any chunk_size >= 1, overlap >= 0, min_size >= 1, has text that is
\* non-empty after trimming; an empty text yields zero chunks.
C10_NoEmptyChunkText ==
    chunker_pc = "done" =>
        /\ \A i \in 1..Len(chunk_result) : Strip(chunk_result[i].text) # << >>
        /\ chunker_call.text = << >> => chunk_result = << >>

\* C8: ValidationEngine.validate returns a ValidationResult and never raises,
\* for every body and every directive that parse can produce; when the
\* directive's metadata is a JSON value other than an object, the result holds
\* the issue that metadata must be a JSON object.
C8_ValidateNeverRaises ==
    (validator_pc = "done" /\ validation_call.fn = "validate") =>
        /\ validation_result.status = "ok"
        /\ validation_call.directive.metadata.kind # "obj" =>
              \E i \in 1..Len(validation_result.issues) :
                  validation_result.issues[i].message = "Metadata must be a JSON object"

\* C9: every ValidationResult returned by validate or validate_directive_only
\* has is_valid exactly when none of its issues is at error level, whatever the
\* score and whatever warning and info issues it holds.
C9_ValidIffNoError ==
    (validator_pc = "done" /\ validation_result.status = "ok") =>
        (validation_result.is_valid <=>
            \A i \in 1..Len(validation_result.issues) :
                validation_result.issues[i].level # "error")

\* C9 witness: validate has returned a valid result that holds warning and info
\* issues and a score below one half.
C9_Witness ==
    /\ validator_pc = "done"
    /\ validation_call.fn = "validate"
    /\ validation_result.status = "ok"
    /\ validation_result.is_valid
    /\ \E i \in 1..Len(validation_result.issues) :
          validation_result.issues[i].level = "warning"
    /\ \E i \in 1..Len(validation_result.issues) :
          validation_result.issues[i].level = "info"
    /\ 2 * validation_result.score < ScoreOne

\* C1: for every registered strategy and every body, process returns a list of
\* chunks and never raises, also when the strategy's natural boundaries are
\* absent and a secondary detection or fallback path supplies them.
C1_ProcessNeverRaises ==
    strategy_pc = "done" => process_result.status = "ok"

\* C2: for every strategy's process(body), every non-whitespace character of
\* the body is contained in the text of a returned chunk, unless it belongs to
\* a candidate removed for being below the minimum size: every word of the
\* body occurs in a chunk's text or lies in a removed candidate.
C2_NoBodyTextLost ==
    (strategy_pc = "done" /\ process_result.status = "ok") =>
        LET IsNotSpace(c) == ~IsSpace(c)
            body == strategy_call.content
        IN  \A word \in Runs(body, IsNotSpace) :
                \/ \E i \in 1..Len(process_result.chunks) :
                      Contains(process_result.chunks[i].text, Slice(body, word[1], word[2]))
                \/ \E i \in 1..Len(process_result.dropped) :
                      /\ process_result.dropped[i][1] <= word[1]
                      /\ word[2] <= process_result.dropped[i][2]

\* The header of text has a metadata directive line whose value is not valid
\* JSON: the lines before the first one that is neither the interpreter marker
\* nor a directive line are the header.
HeaderHasBadMetadata(text) ==
    LET lines == SplitOn(text, "\n")
        IsHeaderLine(i) == \/ StartsWith(Strip(lines[i]), Chars("#!/"))
                           \/ StartsWith(Strip(lines[i]), Chars("@"))
    IN  \E i \in 1..Len(lines) :
           /\ \A j \in 1..i : IsHeaderLine(j)
           /\ StartsWith(Strip(lines[i]), Chars("@metadata:"))
           /\ MatchDirective(Chars("@metadata:"), Strip(lines[i])) # None
           /\ ~Loads(Strip(MatchDirective(Chars("@metadata:"), Strip(lines[i]))[1])).ok

SelectionMade ==
    \/ proc_pc \in {"selected", "validated", "chunked", "done"}
    \/ proc_pc = "raised" /\ proc_error \in {"select", "validate", "process"}

\* C7: process_content selects the strategy as follows: if the directive names
\* a strategy, that strategy is used when it is registered, and the call fails
\* with an error (no result, no validation, no chunking) when it is not
\* registered; if the directive names no strategy, the type-to-strategy lookup
\* is used when the analysis confidence is at least 0.7, and
\* article/sentence-based is used otherwise.
C7_StrategySelection ==
    SelectionMade =>
        LET named == proc_directive[1].strategy
            lookup == [t \in DocumentTypes |->
                         CASE t = "product_catalog" -> "products/semantic-boundary"
                           [] t = "user_manual" -> "manual/section-based"
                           [] t = "faq" -> "faq/qa-pairs"
                           [] t = "legal_document" -> "legal/paragraph-based"
                           [] t = "code_documentation" -> "code/function-based"
                           [] OTHER -> "article/sentence-based"]
        IN  IF named # None /\ named # Some(<< >>)
            THEN IF \E n \in StrategyNames : Chars(n) = named[1]
                 THEN strategy_name # None /\ Chars(strategy_name[1]) = named[1]
                 ELSE /\ proc_pc = "raised"
                      /\ proc_error = "select"
                      /\ strategy_name = None
                      /\ validation = None
                      /\ chunks = None
                      /\ result = None
            ELSE strategy_name =
                   Some(IF analysis[1].confidence >= 700
                        THEN lookup[analysis[1].document_type]
                        ELSE "article/sentence-based")

C7_Witness ==
    /\ proc_pc = "done"
    /\ proc_directive[1].strategy = None
    /\ analysis[1].document_type = "legal_document"
    /\ analysis[1].confidence = 700
    /\ result[1].strategy_used = "legal/paragraph-based"

\* C11: every chunk returned by chunk_by_size or chunk_by_pattern, sub-chunks
\* of a split candidate included, has 0 <= start_position <= end_position <=
\* len(text).
C11_ChunkOffsetsInText ==
    chunker_pc = "done" =>
        \A i \in 1..Len(chunk_result) :
            /\ 0 <= chunk_result[i].start_position
            /\ chunk_result[i].start_position <= chunk_result[i].end_position
            /\ chunk_result[i].end_position <= Len(chunker_call.text)

C11_Witness ==
    /\ chunker_pc = "done"
    /\ chunker_call.fn = "chunk_by_pattern"
    /\ \E i \in 1..Len(chunk_result) : chunk_result[i].chunking_method = "large-chunk-split"
    /\ \E i \in 1..Len(chunk_result) : chunk_result[i].chunking_method = "pattern-based"

\* C13: in the list returned by one pattern-based or size-based split with
\* overlap k > 0, consecutive chunks have strictly increasing start positions
\* and each starts no later than its predecessor ends.
C13_OverlapMonotone ==
    (chunker_pc = "done" /\ chunker_call.overlap > 0) =>
        \A i \in 1..(Len(chunk_result) - 1) :
            /\ chunk_result[i + 1].start_position > chunk_result[i].start_position
            /\ chunk_result[i + 1].start_position <= chunk_result[i].end_position

\* C12: for every strategy's process(body), every returned chunk's offsets are
\* offsets into that body: 0 <= start_position <= end_position <= len(body).
C12_ChunkOffsetsInBody ==
    (strategy_pc = "done" /\ process_result.status = "ok") =>
        \A i \in 1..Len(process_result.chunks) :
            /\ 0 <= process_result.chunks[i].start_position
            /\ process_result.chunks[i].start_position <= process_result.chunks[i].end_position
            /\ process_result.chunks[i].end_position <= Len(strategy_call.content)

\* The strategy registered as name finds none of its natural boundaries in
\* body: no product field start, no sentence end, no separator of the
\* structured-blocks variant, no legal section and no paragraph break.
NoNaturalBoundaries(name, body) ==
    CASE name = "products/semantic-boundary" -> find_product_boundaries(body) = << >>
      [] name = "article/sentence-based" ->
            ~\E i \in 1..(Len(body) - 1) : body[i] \in {".", "!", "?"} /\ IsSpace(body[i + 1])
      [] name = "structured-blocks/empty-line-separated" -> ParagraphBreaks(body) = {}
      [] name = "structured-blocks/heading-separated" -> HeadingMatches(body) = {}
      [] name = "structured-blocks/numbered-separated" -> NumberedMatches(body) = {}
      [] name = "legal/paragraph-based" ->
            LegalSectionMatches(body) = << >> /\ ParagraphBreaks(body) = {}
      [] name = "faq/qa-pairs" ->
            /\ extract_qa_pairs(body) = << >>
            /\ extract_numbered_questions(body) = << >>
            /\ extract_question_mark_pairs(body) = << >>
      [] OTHER -> FALSE

\* C14: for any body with at least one non-whitespace character in which the
\* selected strategy finds none of its natural boundaries, process returns at
\* least one chunk whose text is non-empty.
C14_FallbackGivesChunk ==
    (/\ strategy_pc = "done"
     /\ Strip(strategy_call.content) # << >>
     /\ NoNaturalBoundaries(strategy_call.name, strategy_call.content)) =>
        /\ process_result.status = "ok"
        /\ \E i \in 1..Len(process_result.chunks) : process_result.chunks[i].text # << >>

\* The explicit question and answer pairs a body is made of, when it is made
\* of such pairs only.
ExplicitPairsOf(body) ==
    { pairs \in SeqsUpTo(QaPairBlocks, MaxBlocks) :
        pairs # << >> /\ Join(pairs, << "\n", "\n" >>) = body }

\* The body of two short pairs.
TwoPairBody ==
    Chars("Q: What is this?\nA: It is a test.\n\nQ: How does it work?\nA: It works well.")

\* C15: FAQStrategy.process on a body made of n explicit 'Q:' / 'A:' pairs
\* returns exactly n chunks, one per pair in document order (chunk i holds the
\* question line of pair i), and on the two-pair body it returns 2 chunks
\* whose question_type is 'definition' then 'procedure'.
C15_OneChunkPerPair ==
    (strategy_pc = "done" /\ strategy_call.name = "faq/qa-pairs") =>
        /\ \A pairs \in ExplicitPairsOf(strategy_call.content) :
              /\ process_result.status = "ok"
              /\ Len(process_result.chunks) = Len(pairs)
              /\ \A i \in 1..Len(pairs) :
                    StartsWith(process_result.chunks[i].text,
                               Slice(pairs[i], 0, LineEnd(pairs[i], 0)))
        /\ strategy_call.content = TwoPairBody =>
              /\ Len(process_result.chunks) = 2
              /\ process_result.chunks[1].question_type = "definition"
              /\ process_result.chunks[2].question_type = "procedure"

\* The blocks of the bodies that hold exactly one 'Name:' line, their first.
NameBlocks == { b \in StrategyBlocks : FieldMatches(b, Lower(b), Chars("name"), 0) = << 0 >> }

\* The product blocks a body is made of, when it is made of such blocks only.
ProductBlocksOf(body) ==
    { blocks \in SeqsUpTo(NameBlocks, MaxBlocks) :
        blocks # << >> /\ Join(blocks, << "\n", "\n" >>) = body }

\* The first line of a block.
FirstLine(block) == Slice(block, 0, LineEnd(block, 0))

\* C16: for a body of blank-line-separated product blocks, each with exactly
\* one 'Name:' line as its first line, ProductsStrategy.process returns one
\* chunk per block, in order, and each chunk holds the 'Name:' line of its own
\* block and of no other block.
C16_OneChunkPerProduct ==
    (strategy_pc = "done" /\ strategy_call.name = "products/semantic-boundary") =>
        \A blocks \in ProductBlocksOf(strategy_call.content) :
            /\ process_result.status = "ok"
            /\ Len(process_result.chunks) = Len(blocks)
            /\ \A i, j \in 1..Len(blocks) :
                  Contains(process_result.chunks[i].text, FirstLine(blocks[j]))
                      <=> FirstLine(blocks[j]) = FirstLine(blocks[i])

\* C17: every chunk a strategy's process returns, the chunks of its size-based
\* fallback path included, has metadata with the key 'strategy', equal to
\* the strategy's canonical name, and the key 'chunk_index'.
C17_ChunkMetadataComplete ==
    (strategy_pc = "done" /\ process_result.status = "ok") =>
        \A i \in 1..Len(process_result.chunks) :
            /\ "strategy" \in DOMAIN process_result.chunks[i]
            /\ process_result.chunks[i].strategy = strategy_call.name
            /\ "chunk_index" \in DOMAIN process_result.chunks[i]

\* C18: for every body, the empty one and very short ones included, the
\* confidence DocumentAnalyzer.analyze returns is at least 0.0 and at most
\* 0.95.
C18_ConfidenceInRange ==
    analyzer_pc = "done" =>
        /\ 0 <= analyzer_result[1].confidence
        /\ analyzer_result[1].confidence <= 950

\* C18's case: the analyzer has analysed a body that is not empty and the
\* confidence it returned is at the cap.
C18_Witness ==
    /\ analyzer_pc = "done"
    /\ analyzer_content # << >>
    /\ analyzer_result[1].confidence = 950

\* C20: analyze on the empty string returns the document type UNKNOWN with
\* confidence 0.0.
C20_EmptyIsUnknown ==
    (analyzer_pc = "done" /\ analyzer_content = << >>) =>
        /\ analyzer_result[1].document_type = "unknown"
        /\ analyzer_result[1].confidence = 0

\* The document types for which _select_strategy has a strategy of their own.
TypesWithDedicatedStrategy ==
    { "product_catalog", "user_manual", "faq", "article", "legal_document",
      "code_documentation" }

\* C19: when the detected document type has a dedicated strategy, the
\* directive names no strategy and the confidence is at least 0.7, the
\* strategy_used of process_content's result equals the recommended_strategy
\* of its analysis.
C19_RecommendedStrategyUsed ==
    ( /\ proc_pc = "done"
      /\ proc_directive[1].strategy \in { None, Some(<< >>) }
      /\ result[1].analysis.document_type \in TypesWithDedicatedStrategy
      /\ result[1].analysis.confidence >= HIGH_CONFIDENCE_THRESHOLD )
    => result[1].strategy_used = result[1].analysis.recommended_strategy

\* How many offsets the spans <<a, b>> and <<c, d>> have in common.
SpanOverlap(a, b, c, d) == Max2(0, Min2(b, d) - Max2(a, c))

\* C22: in chunk_by_pattern a candidate whose trimmed length is below
\* min_size is dropped: no returned chunk holds more of the candidate's span
\* than the configured overlap, so the candidate is not merged into the chunk
\* that follows it.
C22_SmallCandidateDropped ==
    (chunker_pc = "done" /\ chunker_call.fn = "chunk_by_pattern") =>
        \A skips \in { PatternSkips(chunker_call.text,
                                    FindAll(chunker_call.text, BoundaryPattern, 0),
                                    chunker_call.overlap, chunker_call.min_size,
                                    1, 0) } :
            \A s \in 1..Len(skips), k \in 1..Len(chunk_result) :
                SpanOverlap(skips[s][1], skips[s][2], chunk_result[k].start_position,
                            chunk_result[k].end_position) <= chunker_call.overlap

\* chunk_by_size has emitted the chunk that ends at the end of the text.
LastWindowEmitted ==
    /\ chunker_pc = "size_loop"
    /\ size_loop.chunks # << >>
    /\ size_loop.chunks[Len(size_loop.chunks)].end_position = Len(chunker_call.text)

\* C23: chunk_by_size emits one chunk per window: once it has emitted the
\* chunk whose end_position is len(text) no later step emits a further chunk,
\* and for a non-empty text no longer than chunk_size it returns exactly one
\* chunk, whatever the overlap.
C23_OneChunkPerWindow ==
    [][ /\ LastWindowEmitted => size_loop'.chunks = size_loop.chunks
        /\ ( /\ chunker_pc' = "done"
             /\ chunker_call'.fn = "chunk_by_size"
             /\ chunker_call'.text # << >>
             /\ Len(chunker_call'.text) <= chunker_call'.size )
           => Len(chunk_result') = 1 ]_vars

\* C25: when a body that is not empty has no occurrence of the separator of
\* the structured-blocks variant, process returns what the size-based
\* splitting with target 1000 returns, not the whole body as one block.
C25_NoSeparatorFallsBack ==
    ( /\ strategy_pc = "done"
      /\ strategy_call.name \in StructuredNames
      /\ strategy_call.content # << >>
      /\ ~HasSeparator(separator_type(strategy_call.name), strategy_call.content) )
    => /\ process_result = SizeFallback(strategy_call.content, 1000, 0)
       /\ \A k \in 1..Len(process_result.chunks) :
             process_result.chunks[k].chunking_method = "size-based"

\* The headers before header i that are shallower than level.
ShallowerBefore(body, headers, i, level) ==
    { j \in 1..(i - 1) : HeaderLevel(body, headers[j]) < level }

\* The title of the nearest header before header i that is shallower than
\* level, None when there is none.
NearestShallower(body, headers, i, level) ==
    IF ShallowerBefore(body, headers, i, level) = {} THEN None
    ELSE Some(HeaderTitle(body, headers[SetMax(ShallowerBefore(body, headers, i, level))]))

\* C26: a section chunk of the manual strategy whose header has a level above
\* 1 has as parent section the title of the nearest earlier header of a
\* strictly lower level, and has none only when no earlier header is
\* shallower.
C26_ParentIsNearestShallower ==
    ( /\ strategy_pc = "done"
      /\ strategy_call.name = "manual/section-based"
      /\ process_result.status = "ok" )
    => \A headers \in { TakeMatches(HeadingMatches(strategy_call.content), 0) } :
         \A k \in 1..Len(process_result.chunks), i \in 1..Len(headers) :
            ( /\ SectionEnd(strategy_call.content, headers, i)
                    = process_result.chunks[k].end_position
              /\ process_result.chunks[k].section_level > 1 )
            => process_result.chunks[k].parent_section
                  = NearestShallower(strategy_call.content, headers, i,
                                     process_result.chunks[k].section_level)

\* The question of a question and answer chunk: its text up to the blank line
\* that process puts between question and answer.
QuestionOf(text) == Slice(text, 0, Find(text, << "\n", "\n" >>, 0))

\* The text low starts with the word or words given.
LeadsWith(low, word) ==
    /\ StartsWith(low, Chars(word))
    /\ Len(low) = Len(Chars(word)) \/ ~IsWordChar(low[Len(Chars(word)) + 1])

\* The question type of the interrogative that low starts with, "none" when
\* it starts with no interrogative.
LeadingType(low) ==
    IF LeadsWith(low, "what") \/ LeadsWith(low, "o que") THEN "definition"
    ELSE IF LeadsWith(low, "how") \/ LeadsWith(low, "como") THEN "procedure"
    ELSE IF LeadsWith(low, "why") \/ LeadsWith(low, "por que") THEN "explanation"
    ELSE IF LeadsWith(low, "when") \/ LeadsWith(low, "quando") THEN "timing"
    ELSE IF LeadsWith(low, "where") \/ LeadsWith(low, "onde") THEN "location"
    ELSE "none"

\* C27: the question_type of a question and answer chunk is the type of the
\* interrogative word its question starts with; an interrogative later in the
\* question does not change it.
C27_LeadingInterrogativeDecides ==
    (strategy_pc = "done" /\ strategy_call.name = "faq/qa-pairs") =>
        \A k \in 1..Len(process_result.chunks) :
            \A lead \in { LeadingType(Lower(question_clean(
                              QuestionOf(process_result.chunks[k].text)))) } :
                ( /\ process_result.chunks[k].chunking_method = "qa-pairs"
                  /\ lead # "none" )
                => process_result.chunks[k].question_type = lead

\* The sum of the scores of all document types.
RECURSIVE ScoreSum(_)
ScoreSum(type_scores) ==
    IF type_scores = << >> THEN 0 ELSE type_scores[1] + ScoreSum(Tail(type_scores))

\* A body of one line of under 100 characters in which at most one detection
\* pattern matches, once, and that pattern has the lowest weight, 1.0: the
\* scores of all types add up to at most the score of one such match.
ShortPlainBody(body) ==
    /\ body # << >>
    /\ Len(body) < 100
    /\ \A i \in 1..Len(body) : body[i] # "\n"
    /\ ScoreSum(TypeScores(Lower(body), Len(detection_patterns))) <= 10 * FrequencyBoost(1)

\* C28: a very short body without structure, one plain sentence of under 100
\* characters that matches at most one lowest-weight detection pattern once,
\* is given a confidence below 0.5.
C28_ShortBodyLowConfidence ==
    (analyzer_pc = "done" /\ ShortPlainBody(analyzer_content)) =>
        analyzer_result[1].confidence < 500

\* C30: the length factor of the quality score does not decrease when the body
\* gets longer: no shorter body has a greater length factor than the body
\* assessed; and the quality score lies between 0 and 1.
C30_LengthFactorMonotone ==
    (validator_pc = "done" /\ validation_call.fn = "assess_content_quality") =>
        /\ \A shorter \in 0..Len(validation_call.content) :
              LengthFactor(shorter) <= LengthFactor(Len(validation_call.content))
        /\ 0 <= validation_result.score
        /\ validation_result.score <= ScoreOne

\* C29: in every chunk list returned by chunk_by_pattern, by chunk_by_size or
\* by a strategy's process, the chunk at position i (counted from 0) has
\* chunk_index i, also after an oversized candidate was split.
C29_ChunkIndexIsPosition ==
    /\ chunker_pc = "done" =>
          \A i \in 1..Len(chunk_result) : chunk_result[i].chunk_index = i - 1
    /\ (strategy_pc = "done" /\ process_result.status = "ok") =>
          \A i \in 1..Len(process_result.chunks) :
              process_result.chunks[i].chunk_index = i - 1

\* How many iterations the loop the chunker is in has made: each iteration
\* adds one chunk or one skipped span.
Iterations == Len(size_loop.chunks) + Len(size_loop.skipped)

\* C24: chunk_by_size and _split_large_chunk terminate for every text, every
\* chunk_size >= 1 and every overlap >= 0, an overlap of chunk_size or more
\* included: every iteration of their loops strictly increases the start
\* position, no loop makes more iterations than the text has characters, and
\* a call that has entered its loop returns.
C24_LoopsTerminate ==
    /\ [][ (chunker_pc \in {"size_loop", "split_loop"} /\ size_loop' # size_loop)
             => size_loop'.start_pos > size_loop.start_pos ]_vars
    /\ [](chunker_pc \in {"size_loop", "split_loop", "done"}
             => Iterations <= Len(chunker_call.text))
    /\ (chunker_pc \in {"size_loop", "split_loop"}) ~> (chunker_pc = "done")

\* C24's case: _split_large_chunk has returned from a call whose overlap was
\* at least the maximum size, after as many iterations as its text of three
\* or more characters has.
C24_Witness ==
    /\ chunker_pc = "done"
    /\ chunker_call.fn = "_split_large_chunk"
    /\ chunker_call.overlap >= chunker_call.size
    /\ Len(chunker_call.text) >= 3
    /\ Iterations = Len(chunker_call.text)

\* C21: concurrent process_content calls on one shared processor each behave
\* as the call does when it runs alone: at every position of a thread's call,
\* its locals, the step that raised and the result it returned are those of a
\* run of the same call with no other call around, however the statements of
\* the other calls are interleaved with its own; and the strategy and client
\* registries of the processor stay as the constructor left them.
C21_ConcurrentCallsIsolated ==
    /\ registry = InitialRegistry
    /\ \A t \in Threads :
          conc_pc[t] \notin {"off", "idle"} =>
              Stepped(conc_pc[t], conc_error[t], frames[FrameOf(t)], conc_result[t])
                  \in conc_alone[t]

\* C21's case: two calls with different documents have both returned a
\* result, each after the other thread ran a statement in the middle of it,
\* and the results differ.
C21_Witness ==
    /\ conc_pc[1] = "done"
    /\ conc_pc[2] = "done"
    /\ conc_preempted[1]
    /\ conc_preempted[2]
    /\ conc_content[1] # conc_content[2]
    /\ conc_result[1] # conc_result[2]
    /\ conc_result[1][1].chunks # << >>

====
